---- MODULE Spec2Model ----
(***************************************************************************)
(* Desktop activity tracker (src/desktop-client/tracker.py).               *)
(*                                                                         *)
(* Two threads touch the shared state: the main loop (tick, status poll,   *)
(* periodic sync start, day check, and the sync_data() calls the poll and  *)
(* the day check make on the main thread) and the periodic sync worker     *)
(* thread that main_loop starts.  sync_data is modelled once, per thread.  *)
(* Time is abstracted: every timer of the main loop may or may not be due  *)
(* in an iteration, the idle duration a tick reads is just below or at     *)
(* IDLE_THRESHOLD, and dates are day numbers of a machine on UTC time.     *)
(* Minutes are kept in hundredths (round(x, 2) of the source).             *)
(***************************************************************************)
EXTENDS Integers, Sequences, FiniteSets, TLC

\* ---- bounds of the model ------------------------------------------------
MaxSecs == 2
MaxDay == 2
MaxEntries == 2
MaxTime == 1200
ClockStep == 100

\* ---- program constants --------------------------------------------------
IDLE_THRESHOLD == 300
SECONDS_TO_MINUTES == 60
max_retries == 3
InitialRetryDelay == 2

Apps == {"code-editor", "browser"}
\* the application that is in the foreground while the main loop is studied
Foreground == {"code-editor"}
NoApp == "None"
Users == {"", "alice"}
None == 0
Threads == {"main", "worker"}
Days == 1..(MaxDay)
IdleLevels == {IDLE_THRESHOLD - 1, IDLE_THRESHOLD}
NotRead == 0 - 1
Never == 0 - 1
PostOutcomes == {"200", "500", "ConnectionError", "Timeout"}
PollOutcomes == {"RequestException", "non200", "in_channel", "not_in_channel"}

VARIABLES
    USER,               \* USER_ID of the configuration
    today,              \* local calendar date (date.today())
    idle,               \* main_loop's local `idle` = now - last_input of the tick
    app_usage,          \* the accumulator: app -> seconds (0 = key absent)
    app_usage_lock,     \* "free" or the thread holding it across a blocking call
    tracking_enabled,
    has_joined_today,
    last_join_date,     \* None or a day
    current_day,        \* main_loop's local current_day
    cache,              \* CACHE_FILE: whether it exists and the JSON list in it
    backups,            \* the days d for which a CACHE_FILE.<d> archive exists
    main_pc,            \* position of the main thread
    m_today,            \* `today` as read by the day check of this iteration
    spc,                \* position of each thread inside sync_data
    snap,               \* current_app_usage of the sync in flight
    data,               \* payload of the sync in flight
    retry,              \* loop variable of the retry loop
    retry_delay,
    response,           \* status of the last response object, None if none
    posts,              \* history: POST requests issued by the sync in flight
    slept,              \* history: delays slept by the sync in flight
    ticked,             \* history: seconds ticked since the snapshot
    session_status,     \* check_session_status: what the GET of this poll gave
    interf,             \* history: "no", "sub" (another sync subtracted) or
                        \* "clear" (the accumulator was cleared) since the snapshot
    reset_observed,     \* history: the date for which the poller's day check
                        \* turned has_joined_today from true to false in this
                        \* iteration of the main loop, None if it did not
    bak_file,           \* whether CACHE_FILE.bak exists
    load_result,        \* how the last call of send_cached_data ended
    loaded,             \* the entry that call handed to requests.post
    persisted_on,       \* history: local date of the save_to_cache call that
                        \* wrote CACHE_FILE last in the checks of
                        \* send_cached_data, None once the file was read
    SCREENSHOT_INTERVAL, \* seconds, from the environment
    now,                \* time.time(), in seconds since the program started
    last_screenshot_time,
    shot,               \* history: the last screenshot that was captured
    running,            \* the flag the loops test
    signal_age,         \* seconds since handle_exit_signal ran, Never if not
    cleanup_pc,         \* position of the cleanup thread
    cleanup_age,        \* seconds since the cleanup thread was started
    exit_code,          \* status passed to os._exit, Never while alive
    sync_start_time,    \* sync_data's local: time.time() when it was entered
    marks,              \* the time marks of the activity code: last_input,
                        \* last_system_sleep_time, last_activity_check_time
    collector,          \* the collector's stores and the status it answered last
    ledger              \* history: for every application, the seconds ticked into the
                        \* accumulator and the seconds carried by acknowledged payloads

vars == <<USER, today, idle, app_usage, app_usage_lock,
          tracking_enabled, has_joined_today, last_join_date, current_day,
          cache, backups, main_pc, m_today, spc, snap, data, retry,
          retry_delay, response, posts, slept, ticked, session_status,
          interf, reset_observed, bak_file, load_result, loaded,
          persisted_on, SCREENSHOT_INTERVAL, now, last_screenshot_time, shot,
          running, signal_age, cleanup_pc, cleanup_age, exit_code,
          sync_start_time, marks, collector, ledger>>

\* no signal is sent to the tracker while the main loop is studied
ShutdownUnchanged ==
    UNCHANGED <<running, signal_age, cleanup_pc, cleanup_age, exit_code>>

\* the duration of a sync is looked at in a specification of its own
BudgetUnchanged == UNCHANGED sync_start_time

\* the time marks are looked at in a specification of their own
ActivityUnchanged == UNCHANGED marks

\* the collector is another process, looked at in specifications of its own
CollectorUnchanged == UNCHANGED collector

\* the ledger is kept where the accumulator is followed lock block by lock block
LedgerUnchanged == UNCHANGED ledger

\* datetime.now(timezone.utc) as a calendar date.  The machine's clock is set to
\* UTC, so the UTC date of a payload is the local date at the time it is built.
utc_today == today

\* ---- pure helpers -------------------------------------------------------
\* lines 67, 80 and 914: the three marks are set to time.time() at start
StartMarks ==
    [last_input |-> 0, last_system_sleep_time |-> 0,
     last_activity_check_time |-> 0]

\* the users collection when the collector starts
RegisteredUsers == {"alice"}

\* a collector that has stored nothing and handled no request yet.  inserted
\* counts the documents activity_service.record_activity has added with
\* insert_one; status and body are the response answered last; request,
\* endpoint and handled are history: the request handled last, the endpoint
\* it arrived at, and the number of requests handled.
EmptyCollector ==
    [bucket |-> {}, users |-> RegisteredUsers, activities |-> {},
     daily_summaries |-> {}, inserted |-> 0, status |-> None, body |-> {},
     request |-> "none", endpoint |-> "none", handled |-> 0]

EmptyUsage == [a \in Apps |-> 0]

\* nothing ticked, nothing acknowledged
EmptyLedger == [ticked |-> EmptyUsage, acked |-> EmptyUsage]

IsEmpty(u) == \A a \in Apps : u[a] = 0

RECURSIVE SumOver(_, _)
SumOver(u, S) ==
    IF S = {} THEN 0
    ELSE LET a == CHOOSE x \in S : TRUE IN u[a] + SumOver(u, S \ {a})

Round2MinutesTruncated(seconds) == (100 * seconds) \div 60

\* round(seconds / 60, 2) in hundredths of a minute.  seconds*100/60 has a
\* fractional part of 0, 1/3 or 2/3, so rounding is to the nearest integer.
Round2Minutes(seconds) == (10 * seconds + 3) \div 6

\* aggregate_app_usage(active_app, duration)
aggregate_app_usage(u, active_app, duration) ==
    IF active_app = NoApp THEN u
    ELSE [u EXCEPT ![active_app] = @ + duration]

\* the subtract loop of sync_data: max(0, live - synced), key deleted at 0
SubtractSynced(u, synced) ==
    [a \in Apps |-> IF synced[a] > 0 /\ u[a] > 0
                    THEN (IF u[a] - synced[a] > 0 THEN u[a] - synced[a] ELSE 0)
                    ELSE u[a]]

\* normalized_app_usage: minutes per app, only positive values kept
Normalize(u) == [a \in Apps |-> IF u[a] > 0 THEN Round2Minutes(u[a]) ELSE 0]

NoData == [username |-> "", apps |-> EmptyUsage, timestamp |-> None,
           date |-> None, total_active_time |-> 0]

\* the `data` dictionary built by sync_data.  timestamp and date are the UTC
\* clock at day resolution; display_name, app_sync_info, idle_time and
\* system_info are carried by the payload but read by nothing in the client.
BuildData(u, user, utcday) ==
    [username |-> user,
     apps |-> Normalize(u),
     timestamp |-> utcday,
     date |-> utcday,
     total_active_time |-> Round2Minutes(SumOver(u, Apps))]

validate_without_username(d) ==
    /\ d.timestamp \in Nat \ {None}
    /\ d.date \in Nat \ {None}

\* validate_data_before_sync(data)
validate_data_before_sync(d) ==
    /\ d.username # ""
    /\ d.timestamp \in Nat \ {None}
    /\ d.date \in Nat \ {None}

\* json.dump of a number of minutes (hundredths h, i.e. the float h/100): its
\* decimal text, integer digits and two fraction digits
json_number(h) == <<h \div 100, h % 100>>

\* json.dump of the apps dictionary: one member per key the dictionary holds
json_object(apps) == {<<a, json_number(apps[a])>> : a \in {b \in Apps : apps[b] > 0}}

\* json.loads of such a number
parse_number(n) == 100 * n[1] + n[2]

\* json.loads of such an object
parse_object(o) ==
    [a \in Apps |-> IF \E m \in o : m[1] = a
                    THEN parse_number((CHOOSE m \in o : m[1] = a)[2])
                    ELSE 0]

\* the entry save_to_cache writes: data with data['synced'] = synced, as JSON
CacheEntry(d, synced) ==
    [username |-> d.username, apps |-> json_object(d.apps), timestamp |-> d.timestamp,
     date |-> d.date, total_active_time |-> d.total_active_time,
     synced |-> synced]

\* no entry was read
NoEntry == CacheEntry(NoData, FALSE)

\* CACHE_FILE is missing, or exists and holds a JSON list
NoFile == [exists |-> FALSE, entries |-> <<>>]

File(entries) == [exists |-> TRUE, entries |-> entries]

save_to_cache_appending(d) == File(Append(cache.entries, CacheEntry(d, FALSE)))

\* save_to_cache(data): the file becomes a list with this single entry
save_to_cache(d) == File(<<CacheEntry(d, FALSE)>>)

ClearCacheFileKept(c) == c

\* "Clear any cached data without sending it" of check_session_status
ClearCacheFile(c) == IF c.exists THEN File(<<>>) ELSE c

SafetyCheckSkipped(hj, ljd, day) == hj

\* the safety check at the end of check_session_status
SafetyCheck(hj, ljd, day) == IF ljd # None /\ ljd # day THEN FALSE ELSE hj

NextDelayConstant(d) == d

\* retry_delay *= 2
NextDelay(d) == d * 2

InFlight(t) == spc[t] \in {"gate", "post", "finish"}

RetLabel(pc) ==
    CASE pc = "call_joined" -> "ret_joined"
      [] pc = "call_left" -> "ret_left"
      [] pc = "call_day" -> "ret_day"
      [] OTHER -> pc

\* line 64: int(os.getenv('SCREENSHOT_INTERVAL', '300'))
DefaultInterval == 300

\* no screenshot was captured yet
NoShot == [by |-> "nobody", at |-> 0, uploaded |-> FALSE, tracking |-> FALSE]

\* ---- initial state: module globals and the start of main_loop --------------
Init ==
    /\ USER \in Users
    /\ today = 1
    /\ idle = NotRead
    /\ app_usage = EmptyUsage
    /\ app_usage_lock = "free"
    /\ tracking_enabled = FALSE
    /\ has_joined_today = FALSE
    /\ last_join_date = None
    /\ current_day = 1
    /\ cache = NoFile
    /\ backups = {}
    /\ main_pc = "tick"
    /\ m_today = None
    /\ spc = [t \in Threads |-> "idle"]
    /\ snap = [t \in Threads |-> EmptyUsage]
    /\ data = [t \in Threads |-> NoData]
    /\ retry = [t \in Threads |-> 0]
    /\ retry_delay = [t \in Threads |-> InitialRetryDelay]
    /\ response = [t \in Threads |-> None]
    /\ posts = [t \in Threads |-> 0]
    /\ slept = [t \in Threads |-> <<>>]
    /\ ticked = [t \in Threads |-> EmptyUsage]
    /\ session_status = "none"
    /\ interf = [t \in Threads |-> "no"]
    /\ reset_observed = None
    /\ bak_file = FALSE
    /\ load_result = "none"
    /\ loaded = NoEntry
    /\ persisted_on = None
    /\ SCREENSHOT_INTERVAL = DefaultInterval
    /\ now = 0
    /\ last_screenshot_time = 0
    /\ shot = NoShot
    /\ running = TRUE
    /\ signal_age = Never
    /\ cleanup_pc = "idle"
    /\ cleanup_age = 0
    /\ exit_code = Never
    /\ sync_start_time = 0
    /\ marks = StartMarks
    /\ collector = EmptyCollector
    /\ ledger = EmptyLedger

\* ---- sync_data, executed by thread t ------------------------------------
\* the locals of a sync are dropped when it returns
SyncReturns(t) ==
    /\ spc' = [spc EXCEPT ![t] = "idle"]
    /\ main_pc' = IF t = "main" THEN RetLabel(main_pc) ELSE main_pc
    /\ snap' = [snap EXCEPT ![t] = EmptyUsage]
    /\ data' = [data EXCEPT ![t] = NoData]
    /\ retry' = [retry EXCEPT ![t] = 0]
    /\ retry_delay' = [retry_delay EXCEPT ![t] = InitialRetryDelay]
    /\ response' = [response EXCEPT ![t] = None]
    /\ posts' = [posts EXCEPT ![t] = 0]
    /\ slept' = [slept EXCEPT ![t] = <<>>]
    /\ ticked' = [ticked EXCEPT ![t] = EmptyUsage]

SyncLocalsUnchanged ==
    UNCHANGED <<snap, data, retry, retry_delay, response, posts, slept, ticked>>

\* send_cached_data is called by nothing in main_loop or sync_data
LegacyUnchanged == UNCHANGED <<bak_file, load_result, loaded, persisted_on>>

\* the screenshot timer runs beside the accumulator and touches none of it
ScreenshotUnchanged ==
    UNCHANGED <<SCREENSHOT_INTERVAL, now, last_screenshot_time, shot>>

ClockUnchanged ==
    /\ UNCHANGED <<USER, today>>
    /\ LegacyUnchanged
    /\ ScreenshotUnchanged
    /\ ShutdownUnchanged
    /\ BudgetUnchanged
    /\ ActivityUnchanged
    /\ CollectorUnchanged /\ LedgerUnchanged

EnvUnchanged == ClockUnchanged /\ UNCHANGED idle

MembershipUnchanged ==
    UNCHANGED <<tracking_enabled, has_joined_today, last_join_date, current_day,
                m_today, session_status, reset_observed>>

\* history: a poll that turns has_joined_today from true to false notes the
\* date its day check compared against
NoteReset(observed) ==
    reset_observed' = IF has_joined_today /\ ~has_joined_today'
                      THEN observed ELSE reset_observed

ResetInterf(t) == interf' = [interf EXCEPT ![t] = "no"]

\* lines 464-546: snapshot under the lock, build the payload, validate it
SyncSnapshot(t) ==
    /\ spc[t] = "start"
    /\ app_usage_lock = "free"
    /\ LET d == BuildData(app_usage, USER, utc_today) IN
       IF IsEmpty(app_usage) \/ IsEmpty(Normalize(app_usage))
       THEN /\ SyncReturns(t)
            /\ UNCHANGED <<cache, interf>>
       ELSE IF ~validate_data_before_sync(d)
       THEN /\ cache' = save_to_cache(d)
            /\ SyncReturns(t)
            /\ UNCHANGED interf
       ELSE /\ snap' = [snap EXCEPT ![t] = app_usage]
            /\ data' = [data EXCEPT ![t] = d]
            /\ spc' = [spc EXCEPT ![t] = "gate"]
            /\ UNCHANGED <<cache, main_pc, retry, retry_delay, response, posts,
                           slept, ticked, interf>>
    /\ EnvUnchanged /\ MembershipUnchanged
    /\ UNCHANGED <<app_usage, app_usage_lock, backups>>

GateCacheAlways(hj, c, d) == save_to_cache(d)

\* lines 616-623: "Always cache data if user has joined today"
GateCache(hj, c, d) == IF hj THEN save_to_cache(d) ELSE c

\* lines 548-555 and 616-623: the tracking gate
SyncGate(t) ==
    /\ spc[t] = "gate"
    /\ IF tracking_enabled
       THEN /\ spc' = [spc EXCEPT ![t] = "post"]
            /\ retry' = [retry EXCEPT ![t] = 0]
            /\ retry_delay' = [retry_delay EXCEPT ![t] = InitialRetryDelay]
            /\ response' = [response EXCEPT ![t] = None]
            /\ UNCHANGED <<cache, main_pc, snap, data, posts, slept, ticked,
                           interf>>
       ELSE /\ cache' = GateCache(has_joined_today, cache, data[t])
            /\ SyncReturns(t)
            /\ ResetInterf(t)
    /\ EnvUnchanged /\ MembershipUnchanged
    /\ UNCHANGED <<app_usage, app_usage_lock, backups>>

\* the sleep-and-continue tail of one iteration of the retry loop
SleepAndRetry(t) ==
    /\ posts' = [posts EXCEPT ![t] = @ + 1]
    /\ slept' = [slept EXCEPT ![t] = Append(@, retry_delay[t])]
    /\ retry_delay' = [retry_delay EXCEPT ![t] = NextDelay(@)]
    /\ retry' = [retry EXCEPT ![t] = @ + 1]
    /\ UNCHANGED <<cache, main_pc, spc, snap, data, ticked, interf>>

\* the loop is left with the response of the last attempt (break or exhaustion)
LeaveLoop(t) ==
    /\ posts' = [posts EXCEPT ![t] = @ + 1]
    /\ spc' = [spc EXCEPT ![t] = "finish"]
    /\ UNCHANGED <<cache, main_pc, snap, data, retry, retry_delay, slept,
                   ticked, interf>>

\* save_to_cache(data); return  inside the loop
CacheAndReturn(t) ==
    /\ cache' = save_to_cache(data[t])
    /\ SyncReturns(t)
    /\ ResetInterf(t)

\* lines 577-582: `except requests.exceptions.ConnectionError`
OnConnectionError(t) ==
    IF retry[t] >= max_retries - 1
    THEN CacheAndReturn(t)
    ELSE SleepAndRetry(t) /\ UNCHANGED response

\* lines 556-595: the body of `for retry in range(max_retries)` for one
\* outcome of requests.post
Attempt(t, outcome) ==
    CASE outcome = "200" ->
           /\ response' = [response EXCEPT ![t] = 200]
           /\ LeaveLoop(t)
      [] outcome = "500" ->
           /\ response' = [response EXCEPT ![t] = 500]
           /\ IF retry[t] < max_retries - 1
              THEN SleepAndRetry(t)
              ELSE LeaveLoop(t)
      [] outcome = "ConnectionError" -> OnConnectionError(t)
      [] outcome = "Timeout" ->
           IF retry[t] < max_retries - 1
           THEN SleepAndRetry(t) /\ UNCHANGED response
           ELSE CacheAndReturn(t)

\* lines 556-595: one iteration of `for retry in range(max_retries)`
SyncPost(t) ==
    /\ spc[t] = "post"
    /\ retry[t] < max_retries
    /\ \E outcome \in PostOutcomes : Attempt(t, outcome)
    /\ EnvUnchanged /\ MembershipUnchanged
    /\ UNCHANGED <<app_usage, app_usage_lock, backups>>

DeliveredAnyResponse(resp) == resp # None

\* line 601: `response and response.status_code == 200`
Delivered(resp) == resp # None /\ resp = 200

\* lines 597-615: after the loop, subtract on 200, cache otherwise
SyncFinish(t) ==
    /\ spc[t] = "finish"
    /\ IF Delivered(response[t])
       THEN /\ app_usage_lock = "free"
            /\ app_usage' = SubtractSynced(app_usage, snap[t])
            /\ interf' = [o \in Threads |->
                            IF o # t /\ InFlight(o) /\ interf[o] = "no"
                            THEN "sub"
                            ELSE IF o = t THEN "no" ELSE interf[o]]
            /\ UNCHANGED cache
            /\ SyncReturns(t)
       ELSE /\ cache' = save_to_cache(data[t])
            /\ ResetInterf(t)
            /\ UNCHANGED app_usage
            /\ SyncReturns(t)
    /\ EnvUnchanged /\ MembershipUnchanged
    /\ UNCHANGED <<app_usage_lock, backups>>

\* ---- the main loop --------------------------------------------------------
CallSync(label) ==
    /\ main_pc' = label
    /\ spc' = [spc EXCEPT !["main"] = "start"]

MarkCleared ==
    interf' = [t \in Threads |-> IF InFlight(t) THEN "clear" ELSE interf[t]]

ShouldRecordInclusive(idl, active_app, tracking) ==
    idl <= IDLE_THRESHOLD /\ active_app # NoApp

\* line 961: the condition under which the tick of main_loop records a second
ShouldRecord(idl, active_app, tracking) ==
    idl < IDLE_THRESHOLD /\ active_app # NoApp

\* lines 954-975: "Track activity every second"
Tick ==
    /\ main_pc = "tick"
    /\ app_usage_lock = "free"
    /\ main_pc' = "status"
    /\ \E active_app \in Foreground \cup {NoApp}, idl \in IdleLevels :
         /\ idle' = idl
         /\ IF ShouldRecord(idl, active_app, tracking_enabled)
            THEN /\ app_usage[active_app] < MaxSecs
                 /\ \A t \in Threads : InFlight(t) => ticked[t][active_app] < MaxSecs
                 /\ app_usage' = aggregate_app_usage(app_usage, active_app, 1)
                 /\ ticked' = [t \in Threads |->
                                 IF InFlight(t)
                                 THEN aggregate_app_usage(ticked[t], active_app, 1)
                                 ELSE ticked[t]]
            ELSE UNCHANGED <<app_usage, ticked>>
    /\ ClockUnchanged /\ MembershipUnchanged
    /\ UNCHANGED <<app_usage_lock, cache, backups, spc, snap, data, retry,
                   retry_delay, response, posts, slept, interf>>

TrackingOffBeforeSync(te) == FALSE

\* lines 703-708: tracking_enabled keeps its value while the final sync of a
\* leave runs; it is assigned only after sync_data() has returned
TrackingDuringFinalSync(te) == te

FirstJoinTodayBoth(hj, ljd, day) == ~hj /\ ljd # day

\* "First time joining today" of check_session_status
FirstJoinToday(hj, ljd, day) == ~hj \/ ljd # day

\* lines 657-725: check_session_status up to its first blocking sync_data call
Poll ==
    /\ main_pc = "status"
    /\ \E outcome \in PollOutcomes \cup {"not_due"} :
         /\ session_status' = IF outcome = "not_due" THEN "none" ELSE outcome
         /\ CASE outcome = "not_due" ->
                   /\ main_pc' = "sync"
                   /\ UNCHANGED <<tracking_enabled, has_joined_today, last_join_date,
                                  app_usage, cache, spc, interf>>
              [] outcome \in {"RequestException", "non200"} ->
                   /\ has_joined_today' = SafetyCheck(has_joined_today, last_join_date, today)
                   /\ main_pc' = "sync"
                   /\ UNCHANGED <<tracking_enabled, last_join_date, app_usage, cache,
                                  spc, interf>>
              [] outcome = "in_channel" ->
                   LET first == FirstJoinToday(has_joined_today, last_join_date, today)
                       usage == IF first THEN EmptyUsage ELSE app_usage
                   IN  /\ last_join_date' = IF first THEN today ELSE last_join_date
                       /\ app_usage' = usage
                       /\ IF first THEN MarkCleared ELSE UNCHANGED interf
                       /\ tracking_enabled' = TRUE
                       /\ IF ~tracking_enabled /\ ~IsEmpty(usage)
                          THEN /\ CallSync("call_joined")
                               /\ has_joined_today' = (first \/ has_joined_today)
                               /\ UNCHANGED cache
                          ELSE /\ cache' = IF ~tracking_enabled
                                           THEN ClearCacheFile(cache) ELSE cache
                               /\ has_joined_today' =
                                    SafetyCheck(first \/ has_joined_today,
                                                last_join_date', today)
                               /\ main_pc' = "sync"
                               /\ UNCHANGED spc
              [] outcome = "not_in_channel" ->
                   IF tracking_enabled
                   THEN /\ CallSync("call_left")
                        /\ tracking_enabled' = TrackingDuringFinalSync(tracking_enabled)
                        /\ UNCHANGED <<has_joined_today, last_join_date, app_usage,
                                       cache, interf>>
                   ELSE /\ has_joined_today' =
                             SafetyCheck(has_joined_today, last_join_date, today)
                        /\ main_pc' = "sync"
                        /\ UNCHANGED <<tracking_enabled, last_join_date, app_usage,
                                       cache, spc, interf>>
    /\ idle' = NotRead
    /\ NoteReset(today)
    /\ ClockUnchanged
    /\ UNCHANGED <<app_usage_lock, current_day, m_today, backups, snap, data,
                   retry, retry_delay, response, posts, slept, ticked>>

\* lines 698-702 and 720-724: after the sync of a join has returned
PollJoinedRet ==
    /\ main_pc = "ret_joined"
    /\ cache' = ClearCacheFile(cache)
    /\ has_joined_today' = SafetyCheck(has_joined_today, last_join_date, today)
    /\ NoteReset(today)
    /\ main_pc' = "sync"
    /\ EnvUnchanged
    /\ UNCHANGED <<tracking_enabled, last_join_date, current_day, m_today,
                   app_usage, app_usage_lock, backups, spc, snap, data, retry,
                   retry_delay, response, posts, slept, ticked, interf,
                   session_status>>

\* lines 708 and 720-724: after the final sync of a leave has returned
PollLeftRet ==
    /\ main_pc = "ret_left"
    /\ tracking_enabled' = FALSE
    /\ has_joined_today' = SafetyCheck(has_joined_today, last_join_date, today)
    /\ NoteReset(today)
    /\ main_pc' = "sync"
    /\ EnvUnchanged
    /\ UNCHANGED <<last_join_date, current_day, m_today, cache,
                   app_usage, app_usage_lock, backups, spc, snap, data, retry,
                   retry_delay, response, posts, slept, ticked, interf,
                   session_status>>

\* lines 1003-1015: the periodic sync.  The main thread takes app_usage_lock,
\* starts the worker and joins it for 10s while still holding the lock.
PeriodicSync ==
    /\ main_pc = "sync"
    /\ \E due \in BOOLEAN :
         IF due /\ ~IsEmpty(app_usage) /\ spc["worker"] = "idle"
         THEN /\ app_usage_lock = "free"
              /\ app_usage_lock' = "main"
              /\ spc' = [spc EXCEPT !["worker"] = "start"]
              /\ main_pc' = "join"
         ELSE /\ main_pc' = "day"
              /\ UNCHANGED <<app_usage_lock, spc>>
    /\ session_status' = "none"
    /\ UNCHANGED <<tracking_enabled, has_joined_today, last_join_date,
                   current_day, m_today, reset_observed>>
    /\ EnvUnchanged /\ SyncLocalsUnchanged
    /\ UNCHANGED <<app_usage, cache, backups, interf>>

\* sync_thread.join(timeout=10) returns and the `with` block releases the lock
JoinReturns ==
    /\ main_pc = "join"
    /\ app_usage_lock' = "free"
    /\ main_pc' = "day"
    /\ EnvUnchanged /\ MembershipUnchanged /\ SyncLocalsUnchanged
    /\ UNCHANGED <<app_usage, cache, backups, spc, interf>>

\* lines 1029-1052: archive the cache, reset the membership state, clear
RolloverReset(day) ==
    /\ IF cache.exists
       THEN /\ backups' = backups \cup {current_day}
            /\ cache' = File(<<>>)
       ELSE UNCHANGED <<cache, backups>>
    /\ has_joined_today' = FALSE
    /\ last_join_date' = day
    /\ reset_observed' = None
    /\ current_day' = day
    /\ app_usage' = EmptyUsage
    /\ MarkCleared
    /\ main_pc' = "tick"

JoinDateStaleAlways(ljd, day) == TRUE

\* line 1055: "Regular check for join date"
JoinDateStale(ljd, day) == ljd # day

\* lines 1017-1057: the day check of one iteration
DayCheck ==
    /\ main_pc = "day"
    /\ IF today # current_day
       THEN IF tracking_enabled /\ ~IsEmpty(app_usage)
            THEN /\ CallSync("call_day")
                 /\ m_today' = today
                 /\ UNCHANGED <<has_joined_today, last_join_date, current_day,
                                app_usage, cache, backups, interf,
                                reset_observed>>
            ELSE /\ RolloverReset(today)
                 /\ UNCHANGED <<spc, m_today>>
       ELSE /\ IF JoinDateStale(last_join_date, today)
               THEN /\ has_joined_today' = FALSE
                    /\ last_join_date' = today
               ELSE UNCHANGED <<has_joined_today, last_join_date>>
            /\ reset_observed' = None
            /\ main_pc' = "tick"
            /\ UNCHANGED <<current_day, app_usage, cache, backups, spc, interf,
                           m_today>>
    /\ EnvUnchanged /\ SyncLocalsUnchanged
    /\ UNCHANGED <<tracking_enabled, app_usage_lock, session_status>>

\* the day check continues after its "sync before day change" has returned
DayCheckRet ==
    /\ main_pc = "ret_day"
    /\ RolloverReset(m_today)
    /\ m_today' = None
    /\ EnvUnchanged /\ SyncLocalsUnchanged
    /\ UNCHANGED <<tracking_enabled, app_usage_lock, spc, session_status>>

\* ---- the environment ------------------------------------------------------
\* An iteration of main_loop and a call of sync_data last seconds (the loop
\* sleeps 0.1 s, the GET times out after 3 s and each POST after 15 s, the
\* retries sleep 2 s and 4 s): no two midnights fall into one of them.
WithinOneDay ==
    /\ main_pc # "boot" => today = current_day
    /\ \A t \in Threads : InFlight(t) => data[t].date = utc_today

\* midnight on the machine's clock
Midnight ==
    /\ today < MaxDay
    /\ WithinOneDay
    /\ today' = today + 1
    /\ UNCHANGED <<USER, idle, app_usage, app_usage_lock,
                   tracking_enabled, has_joined_today, last_join_date,
                   current_day, cache, backups, main_pc, m_today, spc, snap, data,
                   retry, retry_delay, response, posts, slept, ticked, interf,
                   session_status, reset_observed, bak_file, load_result,
                   loaded, persisted_on, SCREENSHOT_INTERVAL, now,
                   last_screenshot_time, shot>>
    /\ ShutdownUnchanged
    /\ BudgetUnchanged
    /\ ActivityUnchanged
    /\ CollectorUnchanged /\ LedgerUnchanged

Next ==
    \/ Tick
    \/ Poll
    \/ PollJoinedRet
    \/ PollLeftRet
    \/ PeriodicSync
    \/ JoinReturns
    \/ DayCheck
    \/ DayCheckRet
    \/ \E t \in Threads : SyncSnapshot(t)
    \/ \E t \in Threads : SyncGate(t)
    \/ \E t \in Threads : SyncPost(t)
    \/ \E t \in Threads : SyncFinish(t)
    \/ Midnight

Spec == Init /\ [][Next]_vars

\* ---- the cache file and send_cached_data ------------------------------------
\* CACHE_FILE exists and its content is not JSON: text on which json.loads
\* raises JSONDecodeError, or bytes on which f.read() raises UnicodeDecodeError
CorruptKinds == {"not_json", "not_text"}

CorruptFile(kind) == [exists |-> TRUE, entries |-> <<>>, corrupt |-> kind]

IsCorrupt(c) == "corrupt" \in DOMAIN c

\* the payloads sync_data can build on day d
PayloadsOf(user, d) ==
    {BuildData(u, user, d) : u \in [Apps -> 0..MaxSecs] \ {EmptyUsage}}

SeqsUpTo(S, n) == UNION {[1..k -> S] : k \in 0..n}

\* what CACHE_FILE can hold when the program starts
CacheFiles(user) ==
    {NoFile} \cup {CorruptFile(k) : k \in CorruptKinds} \cup
    {File(es) : es \in SeqsUpTo({CacheEntry(d, FALSE) :
                                   d \in UNION {PayloadsOf(user, day) : day \in Days}},
                                MaxEntries)}

\* lines 374-377: `if entry_date and entry_date != current_date`
Outdated(entry, current_date) ==
    entry.date # None /\ entry.date # current_date

\* lines 379-382: the entries left after the outdated ones are popped
KeepCurrent(entries, current_date) ==
    SelectSeq(entries, LAMBDA e : ~Outdated(e, current_date))

\* lines 396-398: first entry of sorted(cache, key=timestamp, reverse=True)
LatestEntry(entries) ==
    entries[CHOOSE i \in 1..Len(entries) :
              /\ \A j \in 1..Len(entries) :
                    entries[j].timestamp <= entries[i].timestamp
              /\ \A j \in 1..(i - 1) :
                    entries[j].timestamp < entries[i].timestamp]

\* line 357: os.rename raises FileExistsError on Windows when CACHE_FILE.bak
\* is already there; elsewhere it replaces the old sidecar
RenameFails(is_windows, bak) == is_windows /\ bak

\* lines 354-364: the corrupt file is renamed to CACHE_FILE.bak and CACHE_FILE
\* is written anew as '[]'; when the rename raises, the exception is logged
\* and the file is left as it was
Quarantine(c, rename_fails) == IF rename_fails THEN c ELSE File(<<>>)

ProgramIdle ==
    /\ UNCHANGED <<USER, idle, app_usage, app_usage_lock, tracking_enabled,
                   has_joined_today, last_join_date, current_day, backups,
                   m_today, spc, snap, data, retry, retry_delay, response,
                   posts, slept, ticked, session_status, interf,
                   reset_observed, SCREENSHOT_INTERVAL, now,
                   last_screenshot_time, shot>>
    /\ ShutdownUnchanged
    /\ BudgetUnchanged
    /\ ActivityUnchanged
    /\ CollectorUnchanged /\ LedgerUnchanged

\* lines 881-911: main_loop from its entry to the start of the while loop
Startup ==
    /\ main_pc = "boot"
    /\ main_pc' = "tick"
    /\ current_day' = today
    /\ has_joined_today' = FALSE
    /\ tracking_enabled' = FALSE
    /\ last_join_date' = None
    /\ app_usage' = EmptyUsage
    /\ UNCHANGED <<USER, today, idle, app_usage_lock, cache, backups, m_today,
                   spc, snap, data, retry, retry_delay, response, posts, slept,
                   ticked, session_status, interf, reset_observed, bak_file,
                   load_result, loaded, persisted_on, SCREENSHOT_INTERVAL,
                   now, last_screenshot_time, shot>>
    /\ ShutdownUnchanged
    /\ BudgetUnchanged
    /\ ActivityUnchanged
    /\ CollectorUnchanged /\ LedgerUnchanged

\* the dates datetime.now(timezone.utc) can give in the course of a local day,
\* on a machine whose zone is at or east of UTC
UtcDates(local) == {d \in Days : d = local \/ d = local - 1}

\* save_to_cache(data) with a payload that sync_data builds now (lines 477-540)
Persist ==
    /\ \E ud \in UtcDates(today) :
         \E d \in PayloadsOf(USER, ud) : cache' = save_to_cache(d)
    /\ persisted_on' = today
    /\ ProgramIdle
    /\ UNCHANGED <<today, main_pc, bak_file, load_result, loaded>>

\* lines 336-423: send_cached_data()
send_cached_data ==
    /\ IF ~cache.exists
       THEN \* os.path.getsize raises outside the try block
            /\ load_result' = "raised"
            /\ loaded' = NoEntry
            /\ UNCHANGED <<cache, bak_file>>
       ELSE IF IsCorrupt(cache)
       THEN IF cache.corrupt = "not_text"
            THEN \* line 365: `except Exception`, log and return
                 /\ load_result' = "unreadable"
                 /\ loaded' = NoEntry
                 /\ UNCHANGED <<cache, bak_file>>
            ELSE \E is_windows \in BOOLEAN :
                   /\ cache' = Quarantine(cache, RenameFails(is_windows, bak_file))
                   /\ bak_file' = TRUE
                   /\ load_result' = "corrupt"
                   /\ loaded' = NoEntry
       ELSE IF cache.entries = <<>>
       THEN /\ load_result' = "empty"
            /\ loaded' = NoEntry
            /\ UNCHANGED <<cache, bak_file>>
       ELSE LET kept == KeepCurrent(cache.entries, today) IN
            IF kept = <<>>
            THEN /\ cache' = File(kept)
                 /\ load_result' = "outdated"
                 /\ loaded' = NoEntry
                 /\ UNCHANGED bak_file
            ELSE \E outcome \in PostOutcomes :
                   /\ loaded' = LatestEntry(kept)
                   /\ IF outcome = "200"
                      THEN cache' = File(<<>>) /\ load_result' = "sent"
                      ELSE cache' = File(kept) /\ load_result' = "kept"
                   /\ UNCHANGED bak_file
    /\ persisted_on' = None
    /\ ProgramIdle
    /\ UNCHANGED <<today, main_pc>>

CacheInit ==
    /\ USER = "alice"
    /\ today = 1
    /\ idle = NotRead
    /\ app_usage = EmptyUsage
    /\ app_usage_lock = "free"
    /\ tracking_enabled = FALSE
    /\ has_joined_today = FALSE
    /\ last_join_date = None
    /\ current_day = 1
    /\ cache \in CacheFiles(USER)
    /\ backups = {}
    /\ main_pc = "boot"
    /\ m_today = None
    /\ spc = [t \in Threads |-> "idle"]
    /\ snap = [t \in Threads |-> EmptyUsage]
    /\ data = [t \in Threads |-> NoData]
    /\ retry = [t \in Threads |-> 0]
    /\ retry_delay = [t \in Threads |-> InitialRetryDelay]
    /\ response = [t \in Threads |-> None]
    /\ posts = [t \in Threads |-> 0]
    /\ slept = [t \in Threads |-> <<>>]
    /\ ticked = [t \in Threads |-> EmptyUsage]
    /\ session_status = "none"
    /\ interf = [t \in Threads |-> "no"]
    /\ reset_observed = None
    /\ bak_file \in BOOLEAN
    /\ load_result = "none"
    /\ loaded = NoEntry
    /\ persisted_on = None
    /\ SCREENSHOT_INTERVAL = DefaultInterval
    /\ now = 0
    /\ last_screenshot_time = 0
    /\ shot = NoShot
    /\ running = TRUE
    /\ signal_age = Never
    /\ cleanup_pc = "idle"
    /\ cleanup_age = 0
    /\ exit_code = Never
    /\ sync_start_time = 0
    /\ marks = StartMarks
    /\ collector = EmptyCollector
    /\ ledger = EmptyLedger

CacheNext ==
    \/ Startup
    \/ Persist
    \/ send_cached_data
    \/ Midnight

CacheSpec == CacheInit /\ [][CacheNext]_vars

\* ---- the screenshot timer ---------------------------------------------------
\* values of SCREENSHOT_INTERVAL in the environment, the default among them
ScreenshotIntervals == {200, DefaultInterval, 600}

\* line 949: "will retry in 5 minutes"
RetryPenalty == 300

\* what take_screenshot and upload_screenshot_to_backend can give
ShotOutcomes == {"uploaded", "upload_failed", "capture_failed"}

Shot(thread, t, outcome, tracking) ==
    [by |-> thread, at |-> t, uploaded |-> (outcome = "uploaded"),
     tracking |-> tracking]

\* lines 940 and 802: `now - last_screenshot_time >= SCREENSHOT_INTERVAL`
Due(t, last, interval) == t - last >= interval

\* line 949: last_screenshot_time = now - (SCREENSHOT_INTERVAL - 300)
PenaltyTime(t, interval) == t - (interval - RetryPenalty)

ShotFrame ==
    /\ UNCHANGED <<USER, today, idle, app_usage, app_usage_lock,
                   has_joined_today, last_join_date, current_day, cache,
                   backups, main_pc, m_today, spc, snap, data, retry,
                   retry_delay, response, posts, slept, ticked, session_status,
                   interf, reset_observed, bak_file, load_result, loaded,
                   persisted_on, SCREENSHOT_INTERVAL>>
    /\ ShutdownUnchanged
    /\ BudgetUnchanged
    /\ ActivityUnchanged
    /\ CollectorUnchanged /\ LedgerUnchanged

\* time passes between two looks at the clock
Advance ==
    /\ now + ClockStep <= MaxTime
    /\ now' = now + ClockStep
    /\ ShotFrame
    /\ UNCHANGED <<tracking_enabled, last_screenshot_time, shot>>

\* check_session_status, as far as the screenshot code can tell: it assigns
\* tracking_enabled (lines 689 and 708)
TrackingSwitch ==
    /\ tracking_enabled' = ~tracking_enabled
    /\ ShotFrame
    /\ UNCHANGED <<now, last_screenshot_time, shot>>

\* lines 939-952: the screenshot block of one iteration of main_loop
MainScreenshot ==
    /\ IF Due(now, last_screenshot_time, SCREENSHOT_INTERVAL)
       THEN IF tracking_enabled
            THEN \E outcome \in ShotOutcomes :
                   /\ last_screenshot_time' =
                        IF outcome = "uploaded"
                        THEN now
                        ELSE PenaltyTime(now, SCREENSHOT_INTERVAL)
                   /\ shot' = IF outcome = "capture_failed"
                              THEN shot
                              ELSE Shot("main", now, outcome, tracking_enabled)
            ELSE /\ last_screenshot_time' = now
                 /\ UNCHANGED shot
       ELSE UNCHANGED <<last_screenshot_time, shot>>
    /\ ShotFrame
    /\ UNCHANGED <<now, tracking_enabled>>

\* lines 798-811: one round of the loop of screenshot_worker
screenshot_worker ==
    /\ IF Due(now, last_screenshot_time, SCREENSHOT_INTERVAL)
       THEN \E outcome \in ShotOutcomes :
              IF outcome = "capture_failed"
              THEN UNCHANGED <<last_screenshot_time, shot>>
              ELSE /\ last_screenshot_time' = now
                   /\ shot' = Shot("worker", now, outcome, tracking_enabled)
       ELSE UNCHANGED <<last_screenshot_time, shot>>
    /\ ShotFrame
    /\ UNCHANGED <<now, tracking_enabled>>

ShotInit ==
    /\ USER = "alice"
    /\ today = 1
    /\ idle = NotRead
    /\ app_usage = EmptyUsage
    /\ app_usage_lock = "free"
    /\ tracking_enabled = FALSE
    /\ has_joined_today = FALSE
    /\ last_join_date = None
    /\ current_day = 1
    /\ cache = NoFile
    /\ backups = {}
    /\ main_pc = "tick"
    /\ m_today = None
    /\ spc = [t \in Threads |-> "idle"]
    /\ snap = [t \in Threads |-> EmptyUsage]
    /\ data = [t \in Threads |-> NoData]
    /\ retry = [t \in Threads |-> 0]
    /\ retry_delay = [t \in Threads |-> InitialRetryDelay]
    /\ response = [t \in Threads |-> None]
    /\ posts = [t \in Threads |-> 0]
    /\ slept = [t \in Threads |-> <<>>]
    /\ ticked = [t \in Threads |-> EmptyUsage]
    /\ session_status = "none"
    /\ interf = [t \in Threads |-> "no"]
    /\ reset_observed = None
    /\ bak_file = FALSE
    /\ load_result = "none"
    /\ loaded = NoEntry
    /\ persisted_on = None
    /\ SCREENSHOT_INTERVAL \in ScreenshotIntervals
    /\ now = 0
    /\ last_screenshot_time = 0
    /\ shot = NoShot
    /\ running = TRUE
    /\ signal_age = Never
    /\ cleanup_pc = "idle"
    /\ cleanup_age = 0
    /\ exit_code = Never
    /\ sync_start_time = 0
    /\ marks = StartMarks
    /\ collector = EmptyCollector
    /\ ledger = EmptyLedger

ShotNext ==
    \/ Advance
    \/ TrackingSwitch
    \/ MainScreenshot
    \/ screenshot_worker

ShotSpec == ShotInit /\ [][ShotNext]_vars

\* the globals as the module and main_loop set them at start, the user, the
\* accumulator and the membership flag left to the specification
RestInit ==
    /\ today = 1
    /\ idle = NotRead
    /\ app_usage_lock = "free"
    /\ has_joined_today = FALSE
    /\ last_join_date = None
    /\ current_day = 1
    /\ cache = NoFile
    /\ backups = {}
    /\ main_pc = "tick"
    /\ m_today = None
    /\ spc = [t \in Threads |-> "idle"]
    /\ snap = [t \in Threads |-> EmptyUsage]
    /\ data = [t \in Threads |-> NoData]
    /\ retry = [t \in Threads |-> 0]
    /\ retry_delay = [t \in Threads |-> InitialRetryDelay]
    /\ response = [t \in Threads |-> None]
    /\ posts = [t \in Threads |-> 0]
    /\ slept = [t \in Threads |-> <<>>]
    /\ ticked = [t \in Threads |-> EmptyUsage]
    /\ session_status = "none"
    /\ interf = [t \in Threads |-> "no"]
    /\ reset_observed = None
    /\ bak_file = FALSE
    /\ load_result = "none"
    /\ loaded = NoEntry
    /\ persisted_on = None
    /\ SCREENSHOT_INTERVAL = DefaultInterval
    /\ now = 0
    /\ last_screenshot_time = 0
    /\ shot = NoShot
    /\ running = TRUE
    /\ signal_age = Never
    /\ cleanup_pc = "idle"
    /\ cleanup_age = 0
    /\ exit_code = Never
    /\ sync_start_time = 0
    /\ marks = StartMarks
    /\ collector = EmptyCollector

\* ---- suspension: the tick and the input hook against the wall clock ------
\* seconds that pass between two looks at the clock: a pause, or a suspend
Elapsed == {ClockStep, 4 * ClockStep}

TickDurationElapsed(elapsed) == elapsed

\* line 962: the duration handed to aggregate_app_usage, after `elapsed`
\* seconds since the previous tick
TickDuration(elapsed) == 1

\* line 955: `now - last_activity_check_time >= 1`
TickDue(t, last_check) == t - last_check >= 1

\* lines 205-208: the gap that makes on_activity note a system sleep
SleepSuspected(gap) == gap > 60 /\ gap > 300

SuspendFrame ==
    UNCHANGED <<USER, today, app_usage_lock, tracking_enabled,
                has_joined_today, last_join_date, current_day, cache, backups,
                main_pc, m_today, spc, snap, data, retry, retry_delay,
                response, posts, slept, ticked, session_status, interf,
                reset_observed, bak_file, load_result, loaded, persisted_on,
                SCREENSHOT_INTERVAL, last_screenshot_time, shot, running,
                signal_age, cleanup_pc, cleanup_age, exit_code,
                sync_start_time, collector,
                ledger>>

\* the wall clock goes on, the process running or the machine suspended
Elapse ==
    /\ \E d \in Elapsed :
         /\ now + d <= MaxTime
         /\ now' = now + d
    /\ UNCHANGED <<marks, idle, app_usage>>
    /\ SuspendFrame

\* lines 195-212: the input hook
on_activity ==
    /\ marks' = [marks EXCEPT
                   !.last_input = now,
                   !.last_system_sleep_time =
                       IF SleepSuspected(now - marks.last_input) THEN now ELSE @]
    /\ UNCHANGED <<now, idle, app_usage>>
    /\ SuspendFrame

\* lines 954-975: "Track activity every second", with the clock
TimedTick ==
    /\ TickDue(now, marks.last_activity_check_time)
    /\ \E active_app \in Apps \cup {NoApp} :
         /\ idle' = now - marks.last_input
         /\ IF ShouldRecord(idle', active_app, tracking_enabled)
            THEN /\ app_usage[active_app] < MaxSecs
                 /\ app_usage' = aggregate_app_usage(app_usage, active_app,
                                     TickDuration(now - marks.last_activity_check_time))
            ELSE UNCHANGED app_usage
    /\ marks' = [marks EXCEPT !.last_activity_check_time = now]
    /\ UNCHANGED now
    /\ SuspendFrame

\* main_loop has reached its while loop
SuspendInit ==
    /\ RestInit
    /\ ledger = EmptyLedger
    /\ USER = "alice"
    /\ app_usage = EmptyUsage
    /\ tracking_enabled \in BOOLEAN

SuspendNext ==
    \/ Elapse
    \/ on_activity
    \/ TimedTick

SuspendSpec == SuspendInit /\ [][SuspendNext]_vars

\* ---- the duration of one sync_data ---------------------------------------
\* line 461: sync_timeout = 30
sync_timeout == 30

\* line 564: requests.post(..., timeout=15)
PostTimeout == 15

\* seconds one requests.post can take: it answers or fails at once, after a
\* second, or only when its timeout strikes
AttemptSeconds == {0, 1, PostTimeout}

\* line 629: sync_duration = time.time() - sync_start_time
sync_duration(t, start) == t - start

\* line 633: `if sync_duration > sync_timeout`
OverBudget(t, start) == sync_duration(t, start) > sync_timeout

\* seconds an application can have accumulated over an interval of two minutes
LongSeconds == {45, 60, 120}

\* the thread that runs the sync whose duration is looked at
Syncer == "worker"

TimedFrame ==
    /\ UNCHANGED <<USER, today, idle, app_usage, app_usage_lock, backups,
                   SCREENSHOT_INTERVAL, last_screenshot_time, shot>>
    /\ MembershipUnchanged
    /\ LegacyUnchanged
    /\ ShutdownUnchanged
    /\ BudgetUnchanged
    /\ ActivityUnchanged
    /\ CollectorUnchanged /\ LedgerUnchanged

\* lines 556-595 with the clock: one iteration of the retry loop takes the time
\* of its POST and of the sleep that follows it
TimedPost ==
    /\ spc[Syncer] = "post"
    /\ retry[Syncer] < max_retries
    /\ \E outcome \in PostOutcomes, secs \in AttemptSeconds :
         /\ outcome = "Timeout" => secs = PostTimeout
         /\ Attempt(Syncer, outcome)
         /\ now' = now + secs + (IF Len(slept'[Syncer]) > Len(slept[Syncer])
                                 THEN retry_delay[Syncer] ELSE 0)
    /\ TimedFrame

\* sync_data has just been entered by the sync thread
TimedInit ==
    /\ USER = "alice"
    /\ today = 1
    /\ idle = NotRead
    /\ app_usage \in [Apps -> 0..MaxSecs] \cup [Apps -> {0} \cup LongSeconds]
    /\ app_usage_lock = "free"
    /\ tracking_enabled \in BOOLEAN
    /\ has_joined_today \in BOOLEAN
    /\ last_join_date = today
    /\ current_day = today
    /\ cache = NoFile
    /\ backups = {}
    /\ main_pc = "tick"
    /\ m_today = None
    /\ spc = [t \in Threads |-> IF t = Syncer THEN "start" ELSE "idle"]
    /\ snap = [t \in Threads |-> EmptyUsage]
    /\ data = [t \in Threads |-> NoData]
    /\ retry = [t \in Threads |-> 0]
    /\ retry_delay = [t \in Threads |-> InitialRetryDelay]
    /\ response = [t \in Threads |-> None]
    /\ posts = [t \in Threads |-> 0]
    /\ slept = [t \in Threads |-> <<>>]
    /\ ticked = [t \in Threads |-> EmptyUsage]
    /\ session_status = "none"
    /\ interf = [t \in Threads |-> "no"]
    /\ reset_observed = None
    /\ bak_file = FALSE
    /\ load_result = "none"
    /\ loaded = NoEntry
    /\ persisted_on = None
    /\ SCREENSHOT_INTERVAL = DefaultInterval
    /\ now \in {0, ClockStep}
    /\ last_screenshot_time = 0
    /\ shot = NoShot
    /\ running = TRUE
    /\ signal_age = Never
    /\ cleanup_pc = "idle"
    /\ cleanup_age = 0
    /\ exit_code = Never
    /\ sync_start_time = now
    /\ marks = StartMarks
    /\ collector = EmptyCollector
    /\ ledger = EmptyLedger

TimedNext ==
    \/ SyncSnapshot(Syncer)
    \/ SyncGate(Syncer)
    \/ TimedPost
    \/ SyncFinish(Syncer)

TimedSpec == TimedInit /\ [][TimedNext]_vars

\* ---- termination: handle_exit_signal, cleanup, __main__ -----------------------
\* line 838: force_exit sleeps 5 seconds before os._exit(1)
ForceExitDelay == 5

\* line 1196: cleanup_thread.join(timeout=5)
CleanupJoinTimeout == 5

\* lines 1180-1183: watchdog() is defined inside the try block of __main__;
\* no statement calls it or starts a thread on it
watchdog_started == FALSE

Alive == exit_code = Never

Signalled == signal_age # Never

ExitFrame ==
    UNCHANGED <<USER, today, idle, app_usage_lock, tracking_enabled,
                has_joined_today, last_join_date, current_day, backups, m_today,
                spc, snap, data, retry, retry_delay, response, posts, slept,
                ticked, session_status, interf, reset_observed, bak_file,
                load_result, loaded, persisted_on, SCREENSHOT_INTERVAL, now,
                last_screenshot_time, shot, sync_start_time, marks,
                collector, ledger>>

\* lines 830-844: the handler clears `running` and starts the force_exit thread
handle_exit_signal ==
    /\ Alive
    /\ ~Signalled
    /\ running' = FALSE
    /\ signal_age' = 0
    /\ ExitFrame
    /\ UNCHANGED <<app_usage, cache, main_pc, cleanup_pc, cleanup_age, exit_code>>

\* lines 837-840: force_exit wakes up and ends the process
force_exit ==
    /\ Alive
    /\ Signalled
    /\ signal_age >= ForceExitDelay
    /\ exit_code' = 1
    /\ ExitFrame
    /\ UNCHANGED <<app_usage, cache, main_pc, running, signal_age, cleanup_pc,
                   cleanup_age>>

\* the iteration of main_loop enters a call that blocks: the GET of the poll,
\* a sync_data call with its POSTs and sleeps, the join of the sync thread
LoopBlocks ==
    /\ Alive
    /\ main_pc = "tick"
    /\ running
    /\ main_pc' = "blocked"
    /\ ExitFrame
    /\ UNCHANGED <<app_usage, cache, running, signal_age, cleanup_pc,
                   cleanup_age, exit_code>>

\* the blocking call returns and the iteration ends
LoopUnblocks ==
    /\ Alive
    /\ main_pc = "blocked"
    /\ main_pc' = "tick"
    /\ ExitFrame
    /\ UNCHANGED <<app_usage, cache, running, signal_age, cleanup_pc,
                   cleanup_age, exit_code>>

\* lines 921 and 1192-1196: `while running` ends, main_loop returns and the
\* finally block starts the cleanup thread, which tests `tracking_enabled and
\* app_usage` (line 1078)
LoopExits ==
    /\ Alive
    /\ main_pc = "tick"
    /\ ~running
    /\ main_pc' = "join_cleanup"
    /\ cleanup_pc' = IF tracking_enabled /\ ~IsEmpty(app_usage)
                     THEN "post" ELSE "done"
    /\ cleanup_age' = 0
    /\ ExitFrame
    /\ UNCHANGED <<app_usage, cache, running, signal_age, exit_code>>

\* lines 1079-1111: the final POST of cleanup comes back
CleanupPost ==
    /\ Alive
    /\ cleanup_pc = "post"
    /\ \E outcome \in PostOutcomes :
         IF outcome = "200"
         THEN app_usage' = EmptyUsage /\ UNCHANGED cache
         ELSE /\ cache' = save_to_cache(BuildData(app_usage, USER, utc_today))
              /\ UNCHANGED app_usage
    /\ cleanup_pc' = "done"
    /\ ExitFrame
    /\ UNCHANGED <<main_pc, running, signal_age, cleanup_age, exit_code>>

\* lines 1196-1203: the join returns, because cleanup ended or after its
\* timeout, and the main thread calls os._exit(0)
MainExits ==
    /\ Alive
    /\ main_pc = "join_cleanup"
    /\ cleanup_pc = "done" \/ cleanup_age >= CleanupJoinTimeout
    /\ exit_code' = 0
    /\ ExitFrame
    /\ UNCHANGED <<app_usage, cache, main_pc, running, signal_age, cleanup_pc,
                   cleanup_age>>

\* the main thread is not inside a blocking call: it is about to test
\* `while running` with the flag cleared, or its join has nothing to wait for
MainReady ==
    \/ main_pc = "tick" /\ ~running
    \/ main_pc = "join_cleanup" /\ cleanup_pc = "done"

\* one second passes; a thread that is ready, or whose sleep or timeout is
\* over, runs before the next second
ExitClock ==
    /\ Alive
    /\ Signalled
    /\ signal_age < ForceExitDelay
    /\ main_pc = "join_cleanup" => cleanup_age < CleanupJoinTimeout
    /\ ~MainReady
    /\ signal_age' = signal_age + 1
    /\ cleanup_age' = IF main_pc = "join_cleanup"
                      THEN cleanup_age + 1 ELSE cleanup_age
    /\ ExitFrame
    /\ UNCHANGED <<app_usage, cache, main_pc, running, cleanup_pc, exit_code>>

ExitInit ==
    /\ USER = "alice"
    /\ today = 1
    /\ idle = NotRead
    /\ app_usage \in [Apps -> 0..MaxSecs]
    /\ app_usage_lock = "free"
    /\ tracking_enabled \in BOOLEAN
    /\ has_joined_today = FALSE
    /\ last_join_date = None
    /\ current_day = 1
    /\ cache = NoFile
    /\ backups = {}
    /\ main_pc = "tick"
    /\ m_today = None
    /\ spc = [t \in Threads |-> "idle"]
    /\ snap = [t \in Threads |-> EmptyUsage]
    /\ data = [t \in Threads |-> NoData]
    /\ retry = [t \in Threads |-> 0]
    /\ retry_delay = [t \in Threads |-> InitialRetryDelay]
    /\ response = [t \in Threads |-> None]
    /\ posts = [t \in Threads |-> 0]
    /\ slept = [t \in Threads |-> <<>>]
    /\ ticked = [t \in Threads |-> EmptyUsage]
    /\ session_status = "none"
    /\ interf = [t \in Threads |-> "no"]
    /\ reset_observed = None
    /\ bak_file = FALSE
    /\ load_result = "none"
    /\ loaded = NoEntry
    /\ persisted_on = None
    /\ SCREENSHOT_INTERVAL = DefaultInterval
    /\ now = 0
    /\ last_screenshot_time = 0
    /\ shot = NoShot
    /\ running = TRUE
    /\ signal_age = Never
    /\ cleanup_pc = "idle"
    /\ cleanup_age = 0
    /\ exit_code = Never
    /\ sync_start_time = 0
    /\ marks = StartMarks
    /\ collector = EmptyCollector
    /\ ledger = EmptyLedger

ExitNext ==
    \/ handle_exit_signal
    \/ force_exit
    \/ LoopBlocks
    \/ LoopUnblocks
    \/ LoopExits
    \/ CleanupPost
    \/ MainExits
    \/ ExitClock

ExitSpec == ExitInit /\ [][ExitNext]_vars

\* ---- the accumulator lock ------------------------------------------------
\* The places that take app_usage_lock, each as two steps: the `with` statement
\* is entered, then its body runs and the lock is released.
LockFreeAlways(lock) == TRUE

\* line 78: threading.Lock(); `with app_usage_lock` waits while it is held
LockFree(lock) == lock = "free"

\* the threads that touch the accumulator
LockThreads == Threads \cup {"cleanup"}

\* thread t is inside a `with app_usage_lock` block
Inside(t) ==
    CASE t = "main" ->
           \/ main_pc \in {"agg_in", "join_clear_in", "day_clear_in", "join"}
           \/ spc["main"] \in {"snap_in", "sub_in"}
      [] t = "worker" -> spc["worker"] \in {"snap_in", "sub_in"}
      [] t = "cleanup" -> cleanup_pc = "locked"

LockFrame ==
    UNCHANGED <<USER, today, idle, tracking_enabled, backups, m_today, data,
                retry, retry_delay, response, posts, slept, ticked,
                session_status, interf, reset_observed, bak_file, load_result,
                loaded, persisted_on, SCREENSHOT_INTERVAL, now,
                last_screenshot_time, shot, running, signal_age, cleanup_age,
                exit_code, sync_start_time, marks, collector>>

\* the ledger after `seconds` were ticked for the application
Ticked(l, active_app, seconds) ==
    [l EXCEPT !.ticked[active_app] = @ + seconds]

\* the ledger after a payload built from the usage u was answered with 200
Acknowledged(l, u) ==
    [l EXCEPT !.acked = [a \in Apps |-> l.acked[a] + u[a]]]

\* lines 961-962 and 309: the tick calls aggregate_app_usage, which takes the lock
AggEnter ==
    /\ main_pc = "tick"
    /\ running
    /\ SumOver(ledger.ticked, Apps) < MaxSecs
    /\ LockFree(app_usage_lock)
    /\ app_usage_lock' = "main"
    /\ main_pc' = "agg_in"
    /\ UNCHANGED <<app_usage, spc, snap, cache, cleanup_pc, has_joined_today,
                 last_join_date, current_day>>
    /\ LockFrame /\ LedgerUnchanged

\* lines 310-312: the update, and the end of the `with` block
AggBody ==
    /\ main_pc = "agg_in"
    /\ \E a \in Apps :
         /\ app_usage' = aggregate_app_usage(app_usage, a, 1)
         /\ ledger' = Ticked(ledger, a, 1)
    /\ app_usage_lock' = "free"
    /\ main_pc' = "tick"
    /\ UNCHANGED <<spc, snap, cache, cleanup_pc, has_joined_today,
                 last_join_date, current_day>>
    /\ LockFrame

\* lines 676-682: the first join of the day takes the lock
JoinClearEnter ==
    /\ main_pc = "tick"
    /\ running
    /\ ~has_joined_today \/ last_join_date # today
    /\ has_joined_today' = TRUE
    /\ last_join_date' = today
    /\ LockFree(app_usage_lock)
    /\ app_usage_lock' = "main"
    /\ main_pc' = "join_clear_in"
    /\ UNCHANGED <<app_usage, spc, snap, cache, cleanup_pc, current_day>>
    /\ LockFrame /\ LedgerUnchanged

\* line 683: app_usage.clear()
JoinClearBody ==
    /\ main_pc = "join_clear_in"
    /\ app_usage' = EmptyUsage
    /\ app_usage_lock' = "free"
    /\ main_pc' = "tick"
    /\ UNCHANGED <<spc, snap, cache, cleanup_pc, has_joined_today,
                 last_join_date, current_day>>
    /\ LockFrame /\ LedgerUnchanged

\* lines 1021-1049: the day has changed, the reset takes the lock
DayClearEnter ==
    /\ main_pc = "tick"
    /\ running
    /\ today # current_day
    /\ has_joined_today' = FALSE
    /\ last_join_date' = today
    /\ current_day' = today
    /\ LockFree(app_usage_lock)
    /\ app_usage_lock' = "main"
    /\ main_pc' = "day_clear_in"
    /\ UNCHANGED <<app_usage, spc, snap, cache, cleanup_pc>>
    /\ LockFrame /\ LedgerUnchanged

\* lines 1050-1052: app_usage.clear()
DayClearBody ==
    /\ main_pc = "day_clear_in"
    /\ app_usage' = EmptyUsage
    /\ app_usage_lock' = "free"
    /\ main_pc' = "tick"
    /\ UNCHANGED <<spc, snap, cache, cleanup_pc, has_joined_today,
                 last_join_date, current_day>>
    /\ LockFrame /\ LedgerUnchanged

SyncDueNever(usage) == FALSE

\* line 1006: `if app_usage:`, only sync if there is data
SyncDue(usage) == ~IsEmpty(usage)

\* lines 1005-1012: the periodic sync takes the lock, starts the sync thread
\* and joins it inside the `with` block
PeriodicEnter ==
    /\ main_pc = "tick"
    /\ running
    /\ spc["worker"] = "idle"
    /\ LockFree(app_usage_lock)
    /\ SyncDue(app_usage)
    /\ app_usage_lock' = "main"
    /\ spc' = [spc EXCEPT !["worker"] = "start"]
    /\ main_pc' = "join"
    /\ UNCHANGED <<app_usage, snap, cache, cleanup_pc, has_joined_today,
                 last_join_date, current_day>>
    /\ LockFrame /\ LedgerUnchanged

\* line 1012-1015: the join is over, the `with` block ends
PeriodicLeave ==
    /\ main_pc = "join"
    /\ app_usage_lock' = "free"
    /\ main_pc' = "tick"
    /\ UNCHANGED <<app_usage, spc, snap, cache, cleanup_pc, has_joined_today,
                 last_join_date, current_day>>
    /\ LockFrame /\ LedgerUnchanged

\* lines 694, 707 and 1027: sync_data called on the main thread
DirectSync ==
    /\ main_pc = "tick"
    /\ running
    /\ spc["main"] = "idle"
    /\ CallSync("call_left")
    /\ UNCHANGED <<app_usage, app_usage_lock, snap, cache, cleanup_pc,
                 has_joined_today, last_join_date, current_day>>
    /\ LockFrame /\ LedgerUnchanged

\* sync_data returns to its caller
LockedSyncReturns(t) ==
    /\ spc' = [spc EXCEPT ![t] = "idle"]
    /\ snap' = [snap EXCEPT ![t] = EmptyUsage]
    /\ main_pc' = IF t = "main" THEN "tick" ELSE main_pc

\* line 467: sync_data takes the lock for its snapshot
SnapEnter(t) ==
    /\ spc[t] = "start"
    /\ LockFree(app_usage_lock)
    /\ app_usage_lock' = t
    /\ spc' = [spc EXCEPT ![t] = "snap_in"]
    /\ UNCHANGED <<app_usage, main_pc, snap, cache, cleanup_pc,
                 has_joined_today, last_join_date, current_day>>
    /\ LockFrame /\ LedgerUnchanged

\* lines 468-474: return on an empty accumulator, else copy it
SnapBody(t) ==
    /\ spc[t] = "snap_in"
    /\ app_usage_lock' = "free"
    /\ IF IsEmpty(app_usage)
       THEN LockedSyncReturns(t)
       ELSE /\ snap' = [snap EXCEPT ![t] = app_usage]
            /\ spc' = [spc EXCEPT ![t] = "post"]
            /\ UNCHANGED main_pc
    /\ UNCHANGED <<app_usage, cache, cleanup_pc, has_joined_today,
                 last_join_date, current_day>>
    /\ LockFrame /\ LedgerUnchanged

\* lines 548-615: the payload is delivered, or cached and the sync is over
LockedPost(t) ==
    /\ spc[t] = "post"
    /\ \E delivered \in BOOLEAN :
         IF delivered
         THEN /\ spc' = [spc EXCEPT ![t] = "finish"]
              /\ ledger' = Acknowledged(ledger, snap[t])
              /\ UNCHANGED <<cache, snap, main_pc>>
         ELSE /\ cache' = save_to_cache(BuildData(snap[t], USER, utc_today))
              /\ LockedSyncReturns(t)
              /\ LedgerUnchanged
    /\ UNCHANGED <<app_usage, app_usage_lock, cleanup_pc, has_joined_today,
                 last_join_date, current_day>>
    /\ LockFrame

\* line 604: the success branch takes the lock
SubEnter(t) ==
    /\ spc[t] = "finish"
    /\ LockFree(app_usage_lock)
    /\ app_usage_lock' = t
    /\ spc' = [spc EXCEPT ![t] = "sub_in"]
    /\ UNCHANGED <<app_usage, main_pc, snap, cache, cleanup_pc,
                 has_joined_today, last_join_date, current_day>>
    /\ LockFrame /\ LedgerUnchanged

\* lines 605-611: the subtract loop
SubBody(t) ==
    /\ spc[t] = "sub_in"
    /\ app_usage' = SubtractSynced(app_usage, snap[t])
    /\ app_usage_lock' = "free"
    /\ LockedSyncReturns(t)
    /\ UNCHANGED <<cache, cleanup_pc, has_joined_today, last_join_date,
                 current_day>>
    /\ LockFrame /\ LedgerUnchanged

\* line 921: the loop is left, __main__ starts the cleanup thread (line 1194)
LockedLoopExits ==
    /\ main_pc = "tick"
    /\ ~running
    /\ main_pc' = "join_cleanup"
    /\ cleanup_pc' = "start"
    /\ UNCHANGED <<app_usage, app_usage_lock, spc, snap, cache,
                 has_joined_today, last_join_date, current_day>>
    /\ LockFrame /\ LedgerUnchanged

\* lines 1078-1079: the test is made without the lock, then the lock is taken
CleanupEnter ==
    /\ cleanup_pc = "start"
    /\ IF tracking_enabled /\ ~IsEmpty(app_usage)
       THEN /\ LockFree(app_usage_lock)
            /\ app_usage_lock' = "cleanup"
            /\ cleanup_pc' = "locked"
       ELSE /\ cleanup_pc' = "done"
            /\ UNCHANGED app_usage_lock
    /\ UNCHANGED <<app_usage, main_pc, spc, snap, cache, has_joined_today,
                 last_join_date, current_day>>
    /\ LockFrame /\ LedgerUnchanged

\* lines 1080-1118: the final POST and the clear, inside the `with` block
CleanupBody ==
    /\ cleanup_pc = "locked"
    /\ \E outcome \in PostOutcomes :
         IF outcome = "200"
         THEN /\ app_usage' = EmptyUsage
              /\ ledger' = Acknowledged(ledger, app_usage)
              /\ UNCHANGED cache
         ELSE /\ cache' = save_to_cache(BuildData(app_usage, USER, utc_today))
              /\ UNCHANGED <<app_usage, ledger>>
    /\ app_usage_lock' = "free"
    /\ cleanup_pc' = "done"
    /\ UNCHANGED <<main_pc, spc, snap, has_joined_today, last_join_date,
                 current_day>>
    /\ LockFrame

\* main_loop is running and the user is in the channel
LockInit ==
    /\ RestInit
    /\ ledger = EmptyLedger
    /\ USER = "alice"
    /\ app_usage = EmptyUsage
    /\ tracking_enabled = TRUE

LockNext ==
    \/ AggEnter
    \/ AggBody
    \/ JoinClearEnter
    \/ JoinClearBody
    \/ DayClearEnter
    \/ DayClearBody
    \/ PeriodicEnter
    \/ PeriodicLeave
    \/ DirectSync
    \/ \E t \in Threads : SnapEnter(t)
    \/ \E t \in Threads : SnapBody(t)
    \/ \E t \in Threads : LockedPost(t)
    \/ \E t \in Threads : SubEnter(t)
    \/ \E t \in Threads : SubBody(t)
    \/ Midnight
    \/ handle_exit_signal
    \/ LockedLoopExits
    \/ CleanupEnter
    \/ CleanupBody

LockSpec == LockInit /\ [][LockNext]_vars

\* ---- one day with tracking on and a collector that answers 200 -------------
\* lines 564-570: the POST of the sync thread is answered with 200
AcknowledgedPost == LockedPost("worker") /\ spc'["worker"] = "finish"

\* the main loop ticks and triggers the periodic sync, the sync thread runs
\* sync_data; the date does not change, the user stays in the channel and no
\* signal arrives
DrainNext ==
    \/ AggEnter
    \/ AggBody
    \/ PeriodicEnter
    \/ PeriodicLeave
    \/ SnapEnter("worker")
    \/ SnapBody("worker")
    \/ AcknowledgedPost
    \/ SubEnter("worker")
    \/ SubBody("worker")

\* main_loop is running, the user is in the channel, and the seconds ticked
\* so far are in the accumulator
DrainInit ==
    /\ RestInit
    /\ USER = "alice"
    /\ tracking_enabled = TRUE
    /\ app_usage \in [Apps -> 0..MaxSecs]
    /\ ledger = [ticked |-> app_usage, acked |-> EmptyUsage]

DrainSpec == DrainInit /\ [][DrainNext]_vars

\* both threads are scheduled: a thread that can take its next step takes it.
\* Whether a second is ticked depends on the user (AggEnter is not forced);
\* the periodic trigger comes every SYNC_INTERVAL, the join ends after 10 s at
\* the latest, and the POST returns within its timeout.
DrainLiveSpec ==
    /\ DrainSpec
    /\ WF_vars(AggBody)
    /\ WF_vars(PeriodicEnter)
    /\ WF_vars(PeriodicLeave)
    /\ WF_vars(SnapEnter("worker"))
    /\ WF_vars(SnapBody("worker"))
    /\ WF_vars(AcknowledgedPost)
    /\ WF_vars(SubEnter("worker"))
    /\ WF_vars(SubBody("worker"))

\* ---- the collector: screenshot uploads ------------------------------------
MaxRequests == 3

\* contents of an uploaded file
Images == {"frame_a", "frame_b"}

\* hashlib.sha256(bytes).hexdigest(): one digest per content
sha256(bytes) == <<"sha256", bytes>>

\* an upload as the client of either endpoint can send it: the file, the hash
\* field, the user, whether the fields the endpoint requires are all there,
\* and the name the file is to be stored under
Uploads ==
    [username : {"alice", "ghost"},
     bytes : Images,
     hash : {sha256(b) : b \in Images},
     complete : BOOLEAN,
     filename : {"one.jpg"}]

\* s3_client.put_object: the object under the key is replaced
put_object(bucket, key, body) ==
    {o \in bucket : o.key # key} \cup {[key |-> key, body |-> body]}

Answer(status, bucket) == [status |-> status, bucket |-> bucket]

\* app/routers/screenshots.py, lines 115-181: POST /screenshots/upload.  A
\* request that lacks one of the Form(...) fields is answered 422 by FastAPI.
upload_screenshot(req, bucket, s3_up) ==
    IF ~req.complete THEN Answer(422, bucket)
    ELSE IF sha256(req.bytes) # req.hash THEN Answer(400, bucket)
    ELSE IF ~s3_up THEN Answer(500, bucket)
    ELSE Answer(200, put_object(bucket, <<req.username, req.filename>>, req.bytes))

\* routes/screenshot_routes.py, lines 16-65: POST /api/screenshot.  The body
\* is JSON with username and image; t is int(time.time()) of the server.
upload_screenshot_bp(req, bucket, s3_up, t) ==
    IF ~req.complete THEN Answer(400, bucket)
    ELSE IF req.username \notin RegisteredUsers THEN Answer(404, bucket)
    ELSE IF ~s3_up THEN Answer(500, bucket)
    ELSE Answer(200, put_object(bucket, <<"screenshots", req.username, t>>,
                                req.bytes))

CollectorFrame ==
    UNCHANGED <<USER, today, idle, app_usage, app_usage_lock,
                tracking_enabled, has_joined_today, last_join_date,
                current_day, cache, backups, main_pc, m_today, spc, snap,
                data, retry, retry_delay, response, posts, slept, ticked,
                session_status, interf, reset_observed, bak_file, load_result,
                loaded, persisted_on, SCREENSHOT_INTERVAL, now,
                last_screenshot_time, shot, running, signal_age, cleanup_pc,
                cleanup_age, exit_code, sync_start_time, marks,
                ledger>>

\* the collector after it has answered a to the request req
AfterUpload(req, endpoint, a) ==
    [collector EXCEPT !.bucket = a.bucket,
                      !.status = a.status,
                      !.request = req,
                      !.endpoint = endpoint,
                      !.handled = @ + 1]

\* an upload arrives at the FastAPI router
RouterUpload ==
    /\ collector.handled < MaxRequests
    /\ \E req \in Uploads, s3_up \in BOOLEAN :
         collector' = AfterUpload(req, "router",
                                  upload_screenshot(req, collector.bucket, s3_up))
    /\ CollectorFrame

\* an upload arrives at the Flask blueprint
BlueprintUpload ==
    /\ collector.handled < MaxRequests
    /\ \E req \in Uploads, s3_up \in BOOLEAN, t \in 1..2 :
         collector' = AfterUpload(req, "blueprint",
                                  upload_screenshot_bp(req, collector.bucket,
                                                       s3_up, t))
    /\ CollectorFrame

\* the collector has started, the bucket is empty
UploadInit ==
    /\ RestInit
    /\ ledger = EmptyLedger
    /\ USER = "alice"
    /\ app_usage = EmptyUsage
    /\ tracking_enabled = TRUE

UploadNext ==
    \/ RouterUpload
    \/ BlueprintUpload

UploadSpec == UploadInit /\ [][UploadNext]_vars

\* ---- the collector: activity deliveries -----------------------------------
\* helpers.normalize_app_names on one name: a name that is no browser alias
\* gets each of its words capitalized
NormName(a) ==
    CASE a = "code-editor" -> "Code-editor"
      [] a = "browser" -> "Browser"
      [] OTHER -> a

\* helpers.normalize_app_names: times of names that normalize alike are added
normalize_app_names(usage) ==
    [n \in {NormName(a) : a \in Apps} |->
        SumOver(usage, {a \in Apps : NormName(a) = n})]

\* the payloads a client delivers, for one date: sync_data sends the minutes
\* as `apps` and as `app_usage`, cleanup sends `apps` only; app_sync_info
\* holds one timestamp for every application, or is absent
Deliveries ==
    [username : {"alice", "ghost"},
     apps : {Normalize(u) : u \in [Apps -> 0..1] \ {EmptyUsage}},
     with_app_usage : BOOLEAN,
     timestamp : 1..2,
     app_sync_info : {None} \cup 1..2]

\* data.app_usage of a payload
AppUsageField(p) == IF p.with_app_usage THEN p.apps ELSE EmptyUsage

\* app_sync_info.get(app_name, timestamp): app_sync_info is keyed by the
\* names the client sent
sync_ts_of(p, app_name) ==
    IF app_name \in Apps /\ p.app_sync_info # None
    THEN p.app_sync_info
    ELSE p.timestamp

\* the deduplicating update of one activities document
update_activity(activities, app_name, duration, sync_ts) ==
    LET found == {d \in activities : d.app_name = app_name} IN
    IF found = {}
    THEN activities \cup {[app_name |-> app_name, total_time |-> duration,
                           last_sync |-> sync_ts]}
    ELSE LET d == CHOOSE x \in found : TRUE IN
         IF sync_ts > d.last_sync
         THEN (activities \ {d}) \cup
                  {[d EXCEPT !.total_time = @ + duration, !.last_sync = sync_ts]}
         ELSE activities

\* the loop over the applications of a payload; names is the key set of usage
RECURSIVE update_activities(_, _, _, _)
update_activities(activities, p, usage, names) ==
    IF names = {} THEN activities
    ELSE LET n == CHOOSE x \in names : TRUE IN
         update_activities(
             IF usage[n] > 0
             THEN update_activity(activities, n, usage[n], sync_ts_of(p, n))
             ELSE activities,
             p, usage, names \ {n})

\* daily_summaries.update_one(..., {"$inc": {"total_active_time": ...}}, upsert)
update_daily(daily_summaries, total_time) ==
    IF daily_summaries = {}
    THEN {[total_active_time |-> total_time]}
    ELSE {[d EXCEPT !.total_active_time = @ + total_time] : d \in daily_summaries}

\* what a handler leaves behind: the response (status and the JSON object of
\* its body, as a set of <<key, value>> pairs) and the collections
Stored(status, body, db, activities, daily_summaries) ==
    [status |-> status, body |-> body, users |-> db.users,
     activities |-> activities, daily_summaries |-> daily_summaries,
     inserted |-> db.inserted]

\* raise HTTPException(status_code=404, detail="User not found")
NotFoundRouter == {<<"detail", "User not found">>}

\* jsonify({'error': 'User not found'}), 404
NotFoundFlask == {<<"error", "User not found">>}

\* lines 117-121 of the router: {"status": "success", "username": ...,
\* "timestamp": ...}
RouterBody(p) ==
    {<<"status", "success">>, <<"username", p.username>>, <<"timestamp", "now">>}

\* line 231 of server.py: jsonify({'success': True})
FlaskBody == {<<"success", "true">>}

\* line 33 of routes/activity_routes.py: jsonify({'ok': True})
BlueprintBody == {<<"ok", "true">>}

\* app/routers/activity.py, lines 35-127: POST /api/activity of the FastAPI app
track_activity(p, db) ==
    IF p.username \notin db.users
    THEN Stored(404, NotFoundRouter, db, db.activities, db.daily_summaries)
    ELSE LET app_usage_in == IF ~IsEmpty(p.apps) THEN p.apps ELSE AppUsageField(p)
             normalized == normalize_app_names(app_usage_in)
         IN Stored(200, RouterBody(p), db,
                   update_activities(db.activities, p, normalized,
                                     DOMAIN normalized),
                   update_daily(db.daily_summaries, SumOver(app_usage_in, Apps)))

\* server.py, lines 161-235: POST /api/activity of the Flask app
activity(p, db) ==
    IF p.username \notin db.users
    THEN Stored(404, NotFoundFlask, db, db.activities, db.daily_summaries)
    ELSE LET app_usage_in == AppUsageField(p) IN
         Stored(200, FlaskBody, db,
                update_activities(db.activities, p, app_usage_in, Apps),
                update_daily(db.daily_summaries, SumOver(app_usage_in, Apps)))

\* services/user_service.py, lines 14-30: find_one, else insert_one
get_or_create_user(users, username) == users \cup {username}

\* routes/activity_routes.py, lines 16-36: POST /api/activity of the
\* blueprint.  Every payload carries a username, so validate_activity_data
\* passes; the user is created when there is none, and record_activity adds
\* one document with insert_one (the per-app map is not read).
record_activity(p, db) ==
    [Stored(200, BlueprintBody, db, db.activities, db.daily_summaries)
        EXCEPT !.users = get_or_create_user(db.users, p.username),
               !.inserted = db.inserted + 1]

\* the collector after it has answered a to the payload p
AfterDelivery(p, endpoint, a) ==
    [collector EXCEPT !.users = a.users,
                      !.activities = a.activities,
                      !.daily_summaries = a.daily_summaries,
                      !.inserted = a.inserted,
                      !.status = a.status,
                      !.body = a.body,
                      !.request = p,
                      !.endpoint = endpoint,
                      !.handled = @ + 1]

\* a payload arrives at the FastAPI router
RouterDelivery ==
    /\ collector.handled < MaxRequests
    /\ \E p \in Deliveries :
         collector' = AfterDelivery(p, "router", track_activity(p, collector))
    /\ CollectorFrame

\* a payload arrives at the Flask app
FlaskDelivery ==
    /\ collector.handled < MaxRequests
    /\ \E p \in Deliveries :
         collector' = AfterDelivery(p, "flask", activity(p, collector))
    /\ CollectorFrame

\* a payload arrives at the blueprint
BlueprintDelivery ==
    /\ collector.handled < MaxRequests
    /\ \E p \in Deliveries :
         collector' = AfterDelivery(p, "blueprint", record_activity(p, collector))
    /\ CollectorFrame

\* the collector has started, its collections are empty
ActivityInit ==
    /\ RestInit
    /\ ledger = EmptyLedger
    /\ USER = "alice"
    /\ app_usage = EmptyUsage
    /\ tracking_enabled = TRUE

ActivityNext ==
    \/ RouterDelivery
    \/ FlaskDelivery
    \/ BlueprintDelivery

ActivitySpec == ActivityInit /\ [][ActivityNext]_vars

\* the clock goes on, a thread whose sleep has ended is scheduled, and the
\* main thread, when nothing blocks it, takes its next step
ExitLiveSpec ==
    /\ ExitSpec
    /\ WF_vars(ExitClock)
    /\ WF_vars(force_exit)
    /\ WF_vars(LoopExits)
    /\ WF_vars(MainExits)

TypeOK ==
    /\ USER \in Users
    /\ today \in Days
    /\ reset_observed \in Days \cup {None}
    /\ idle \in IdleLevels \cup {NotRead}
    /\ \A a \in Apps : app_usage[a] \in 0..MaxSecs
    /\ app_usage_lock \in {"free", "main"}
    /\ tracking_enabled \in BOOLEAN /\ has_joined_today \in BOOLEAN
    /\ last_join_date \in Days \cup {None}
    /\ \A t \in Threads : spc[t] \in {"idle", "start", "gate", "post", "finish"}
    /\ \A t \in Threads : posts[t] \in 0..max_retries

\* ---- properties -----------------------------------------------------------
CacheIsEmpty(c) == c.entries = <<>>

AfterSnapshot(p) == p \in {"gate", "post", "finish"}

\* the step in which the main loop's tick block runs
TickStep == main_pc = "tick" /\ main_pc' = "status"

\* the step in which a poll gets no usable answer
FailedPollStep ==
    /\ main_pc = "status"
    /\ session_status' \in {"RequestException", "non200"}

\* the step in which thread t's sync ends after a 200
SuccessStep(t) == spc[t] = "finish" /\ response[t] = 200 /\ spc'[t] = "idle"

\* the step in which thread t's sync ends after its last attempt got a non-200
RejectedStep(t) == spc[t] = "finish" /\ response[t] # 200 /\ spc'[t] = "idle"

\* C1: a sync that ends in HTTP 200, with no rollover or first-join clear since
\* its snapshot, removes exactly its snapshot from the accumulator
\* (after = before - snapshot) and leaves in it every second ticked since the
\* snapshot.
C1_SubtractExactlySnapshot ==
    [][\A t \in Threads :
         (SuccessStep(t) /\ interf[t] # "clear") =>
             \A a \in Apps : /\ app_usage'[a] = app_usage[a] - snap[t][a]
                             /\ app_usage'[a] >= ticked[t][a]]_vars

AttemptStep(t) ==
    /\ spc[t] = "post"
    /\ (spc'[t] # "post" \/ retry'[t] # retry[t] \/ posts'[t] # posts[t])

ExpectedSleeps(n) == [i \in 1..n |-> 2 ^ i]

\* C3: a sync whose every attempt fails (non-200 status, connection error or
\* any other request error) makes exactly max_retries = 3 POSTs, sleeps 2s and
\* then 4s between them, sleeps nothing after the third, and writes the cache
\* only after the third attempt.
C3_ThreeAttemptsWithBackoff ==
    /\ [](\A t \in Threads :
            /\ posts[t] <= 3
            /\ spc[t] = "post" =>
                 /\ retry[t] < 3
                 /\ posts[t] = retry[t]
                 /\ slept[t] = ExpectedSleeps(retry[t])
            /\ (spc[t] = "finish" /\ response[t] # 200) =>
                 posts[t] = 3 /\ slept[t] = <<2, 4>>)
    /\ [][\A t \in Threads :
            /\ (spc[t] = "post" /\ spc'[t] = "idle") =>
                 /\ posts[t] = 2
                 /\ slept[t] = <<2, 4>>
                 /\ cache' = File(<<CacheEntry(data[t], FALSE)>>)
            /\ (AttemptStep(t) /\ spc'[t] \in {"post", "finish"}) =>
                 /\ cache' = cache
                 /\ posts'[t] = posts[t] + 1
            /\ (AttemptStep(t) /\ spc'[t] = "post") =>
                 /\ Len(slept'[t]) = Len(slept[t]) + 1
                 /\ Len(slept[t]) > 0 =>
                      slept'[t][Len(slept'[t])] > slept[t][Len(slept[t])]]_vars

C3_Witness ==
    \E t \in Threads :
        /\ spc[t] = "post"
        /\ retry[t] = 2
        /\ response[t] = None
        /\ slept[t] = <<2, 4>>

\* C4: while is_tracking is false a tick leaves the accumulator unchanged.
C4_TickGatedByTracking ==
    [][(TickStep /\ ~tracking_enabled) => app_usage' = app_usage]_vars

\* C5: a tick that reads an idle duration of at least IDLE_THRESHOLD leaves the
\* accumulator unchanged for every application.
C5_IdleTickIsNoOp ==
    [][(TickStep /\ idle' >= IDLE_THRESHOLD) =>
          \A a \in Apps : app_usage'[a] = app_usage[a]]_vars

C5_Witness ==
    /\ main_pc = "status"
    /\ idle >= IDLE_THRESHOLD
    /\ ~IsEmpty(app_usage)

\* C6: a sync that reaches the tracking gate while is_tracking is false issues
\* no POST, writes its payload to the cache when has_joined_today is true and
\* leaves the cache alone when it is false, and leaves the accumulator as it
\* was (the snapshot is still in it for the next sync).
C6_UntrackedSyncOnlyCaches ==
    [][\A t \in Threads :
         (spc[t] = "gate" /\ spc'[t] # "gate" /\ ~tracking_enabled) =>
             /\ spc'[t] = "idle"
             /\ posts[t] = 0 /\ posts'[t] = 0
             /\ has_joined_today => cache' = File(<<CacheEntry(data[t], FALSE)>>)
             /\ ~has_joined_today => cache' = cache
             /\ app_usage' = app_usage
             /\ interf[t] = "no" =>
                  \A a \in Apps : app_usage'[a] >= snap[t][a]]_vars

C6_Witness ==
    \E t \in Threads :
        /\ spc[t] = "gate"
        /\ ~tracking_enabled
        /\ has_joined_today
        /\ ~IsEmpty(snap[t])

\* what pre-flight validation demands of a payload
WellFormed(d) ==
    /\ d.username # ""
    /\ d.timestamp \in Days
    /\ d.date \in Days

\* C7: a payload that fails pre-flight validation is never POSTed: the sync
\* returns before the retry loop, writes the payload to the cache and leaves
\* the accumulator unchanged.
C7_InvalidPayloadNeverSent ==
    /\ [](\A t \in Threads :
            (spc[t] \in {"gate", "post", "finish"} \/ posts[t] > 0) =>
                WellFormed(data[t]))
    /\ [][\A t \in Threads :
            (/\ spc[t] = "start" /\ spc'[t] # "start"
             /\ ~IsEmpty(app_usage)
             /\ ~WellFormed(BuildData(app_usage, USER, utc_today))) =>
                /\ spc'[t] = "idle"
                /\ posts'[t] = 0
                /\ cache' = File(<<CacheEntry(BuildData(app_usage, USER, utc_today),
                                              FALSE)>>)
                /\ app_usage' = app_usage]_vars

C7_Witness ==
    /\ Len(cache.entries) = 1
    /\ cache.entries[1].username = ""
    /\ ~IsEmpty(app_usage)

C9_FirstJoinClears ==
    [][(/\ main_pc = "status"
        /\ session_status' = "in_channel"
        /\ ~tracking_enabled
        /\ (~has_joined_today \/ last_join_date # today)) =>
          /\ IsEmpty(app_usage')
          /\ has_joined_today'
          /\ last_join_date' = today
          /\ tracking_enabled'
          /\ main_pc' = "sync"
          /\ spc' = spc
          /\ posts' = posts
          /\ CacheIsEmpty(cache')]_vars

C9_Witness ==
    /\ main_pc = "sync"
    /\ session_status = "in_channel"
    /\ tracking_enabled
    /\ has_joined_today
    /\ last_join_date = today
    /\ IsEmpty(app_usage)
    /\ cache = File(<<>>)

\* C10: on a join that is not the first of the day the poll calls the sync
\* first, leaving the cache as it is, and empties the cache only after the
\* sync has returned, in a step that issues no POST; every POST of a sync
\* carries the payload of its own snapshot; the cache is empty when the poll
\* returns.
C10_JoinSyncsThenDropsCache ==
    /\ [](\A t \in Threads :
            AfterSnapshot(spc[t]) => data[t].apps = Normalize(snap[t]))
    /\ [][/\ (/\ main_pc = "status"
              /\ session_status' = "in_channel"
              /\ ~tracking_enabled
              /\ has_joined_today /\ last_join_date = today) =>
                /\ tracking_enabled'
                /\ app_usage' = app_usage
                /\ IF IsEmpty(app_usage)
                   THEN main_pc' = "sync" /\ CacheIsEmpty(cache') /\ spc' = spc
                   ELSE /\ main_pc' = "call_joined"
                        /\ spc'["main"] = "start"
                        /\ cache' = cache
          /\ (main_pc = "call_joined" /\ main_pc' = "call_joined") =>
                (cache' = cache \/ Len(cache'.entries) = 1)
          /\ (main_pc = "ret_joined" /\ main_pc' # "ret_joined") =>
                /\ main_pc' = "sync"
                /\ CacheIsEmpty(cache')
                /\ posts' = posts
                /\ spc' = spc]_vars

C10_Witness ==
    /\ main_pc = "ret_joined"
    /\ tracking_enabled
    /\ Len(cache.entries) = 1
    /\ ~IsEmpty(app_usage)

C12_RolloverSyncsBeforeClear ==
    /\ Round2Minutes(45) = 75
    /\ [][/\ (/\ today # current_day
              /\ tracking_enabled
              /\ ~IsEmpty(app_usage)
              /\ \E a \in Apps : app_usage'[a] < app_usage[a]) =>
                \/ \E t \in Threads : SuccessStep(t)
                \/ main_pc = "ret_day"
          /\ (/\ main_pc = "day" /\ main_pc' # "day"
              /\ today # current_day
              /\ tracking_enabled
              /\ ~IsEmpty(app_usage)) =>
                /\ main_pc' = "call_day"
                /\ spc'["main"] = "start"
                /\ UNCHANGED <<app_usage, cache, backups, has_joined_today,
                               last_join_date, current_day>>
          /\ current_day' # current_day =>
                /\ spc["main"] = "idle"
                /\ IsEmpty(app_usage')
                /\ ~has_joined_today'
                /\ last_join_date' = current_day'
                /\ cache.exists =>
                     (cache' = File(<<>>) /\ current_day \in backups')]_vars

\* a step that turns has_joined_today from true to false
ResetStep == has_joined_today /\ ~has_joined_today'

\* the date the code of that step compared the recorded date against
ObservedDate == IF main_pc \in {"day", "ret_day"} THEN last_join_date' ELSE today

\* C13: every step that turns has_joined_today from true to false is taken by
\* code that reads a local date different from the one the program had
\* recorded (last_join_date or current_day), so never while the date is
\* unchanged; when the poller's day check has made the reset for a date, the
\* main loop's day check of that iteration does not make it again; and
\* has_joined_today is false after each of the two has seen a new date.
C13_ResetOncePerDateChange ==
    [][/\ ResetStep =>
            /\ ObservedDate \in Days
            /\ ObservedDate <= today
            /\ reset_observed # ObservedDate
            /\ (last_join_date # ObservedDate \/ current_day # ObservedDate)
       /\ current_day' # current_day => ~has_joined_today'
       /\ (/\ main_pc \in {"status", "ret_joined", "ret_left"}
           /\ main_pc' = "sync"
           /\ session_status' # "none"
           /\ last_join_date' # None /\ last_join_date' # today) =>
             ~has_joined_today']_vars

C13_Witness ==
    /\ reset_observed = 2
    /\ today = 2
    /\ current_day = 1
    /\ main_pc = "sync"
    /\ ~has_joined_today

\* a call of send_cached_data that reads the file a save_to_cache call wrote on
\* this same local day, nothing else having touched the file in between
LoadAfterPersist ==
    /\ persisted_on # None
    /\ persisted_on = today
    /\ persisted_on' = None

\* C14: save_to_cache(payload) followed by send_cached_data() on the same
\* calendar day, with no other cache operation in between, hands on an entry
\* whose per-app minute map, once parsed, is the map of the payload.
C14_PersistLoadRoundTrip ==
    [][LoadAfterPersist =>
          /\ loaded' # NoEntry
          /\ \A ud \in Days : \A d \in PayloadsOf(USER, ud) :
                cache = save_to_cache(d) => parse_object(loaded'.apps) = d.apps]_vars

\* a step that leaves in the cache file an entry list it did not hold before
CacheWritten == cache' # cache /\ cache'.entries # <<>>

\* the payload of thread t's sync_data call: built in the step that starts at
\* the snapshot, held in data afterwards
PayloadAt(t) ==
    IF spc[t] = "start" THEN BuildData(app_usage, USER, utc_today) ELSE data[t]

\* C15: the cache file never holds more than one entry, and every step that
\* writes it is the end of a sync_data call and leaves exactly the payload of
\* that call in it: whatever was cached before is overwritten, never merged
\* or appended.
C15_SingleSlotLatestWins ==
    /\ [](Len(cache.entries) <= 1)
    /\ [][CacheWritten =>
            \E t \in Threads :
               /\ spc[t] # "idle"
               /\ spc'[t] = "idle"
               /\ cache' = File(<<CacheEntry(PayloadAt(t), FALSE)>>)]_vars

C15_Witness ==
    /\ cache.entries # <<>>
    /\ \E t \in Threads :
         /\ spc[t] = "finish"
         /\ response[t] = 500
         /\ CacheEntry(data[t], FALSE) # cache.entries[1]

\* a call of send_cached_data
LoadStep == persisted_on' = None /\ UNCHANGED <<main_pc, today>>

\* the step in which main_loop goes from its entry to the first iteration
StartupStep == main_pc = "boot" /\ main_pc' # "boot"

\* every entry of the cache file c carries the date day
AllDated(c, day) == \A i \in 1..Len(c.entries) : c.entries[i].date = day

\* C16: send_cached_data never hands on an entry whose date differs from the
\* current date and leaves none in the file, so that after the date has
\* advanced it sends nothing of the day before; and the start of main_loop
\* leaves no entry of another date in the cache file and sends none.
C16_StaleNeverSentPurgedAtStartup ==
    /\ [][LoadStep =>
            /\ loaded' # loaded => (loaded' = NoEntry \/ loaded'.date = today)
            /\ load_result' \in {"sent", "kept"} => loaded'.date = today
            /\ AllDated(cache', today)]_vars
    /\ [][StartupStep =>
            /\ AllDated(cache', today)
            /\ UNCHANGED <<loaded, load_result>>]_vars

\* C17: a call of send_cached_data that finds a cache file whose content is
\* not JSON does not raise: it leaves the old content in the .bak sidecar and
\* an empty cache in CACHE_FILE, hands nothing to the collector, and the
\* program goes on.
C17_CorruptCacheQuarantined ==
    [][(LoadStep /\ IsCorrupt(cache)) =>
          /\ load_result' # "raised"
          /\ bak_file'
          /\ cache' = File(<<>>)
          /\ loaded' = NoEntry]_vars

\* C18: the cache file gets an entry only at the end of a sync that failed
\* while has_joined_today is true, and a sync that ends in HTTP 200 leaves the
\* cache empty.
C18_CacheEntryLifecycle ==
    [][/\ CacheWritten => has_joined_today
       /\ \A t \in Threads : SuccessStep(t) => CacheIsEmpty(cache')]_vars

\* a step in which a screenshot is captured and handed to the upload
CaptureStep == shot' # shot

\* C19: a screenshot is captured and uploaded only while tracking_enabled is
\* true, whichever loop does it: the screenshot block of main_loop or
\* screenshot_worker.
C19_ScreenshotOnlyWhileTracking ==
    /\ [][CaptureStep => tracking_enabled]_vars
    /\ [](shot # NoShot => shot.tracking)

\* the time from which the screenshot condition of both loops holds again
NextDue == last_screenshot_time + SCREENSHOT_INTERVAL

\* C20: a screenshot whose upload fails makes the next one due RetryPenalty
\* = 300 seconds later, whatever SCREENSHOT_INTERVAL is, and none is taken
\* before that; a screenshot whose upload succeeds makes the next one due a
\* full SCREENSHOT_INTERVAL later.
C20_FailedUploadRetriedAfterPenalty ==
    [][CaptureStep =>
          /\ ~shot'.uploaded => NextDue' = now + RetryPenalty
          /\ shot'.uploaded => NextDue' = now + SCREENSHOT_INTERVAL
          /\ (shot # NoShot /\ ~shot.uploaded) =>
                now - shot.at >= RetryPenalty]_vars

\* C21: once handle_exit_signal has run the process always ends, whatever the
\* main loop and the cleanup are blocked in, and a watchdog that does not
\* depend on the cleanup path has been armed to force the exit.
C21_SignalAlwaysEndsProcess ==
    /\ Signalled ~> ~Alive
    /\ [](Signalled => watchdog_started)

\* the final sync of cleanup was started
FinalSyncAttempted == cleanup_pc \in {"post", "done"}

\* C22: a signal stops the loops; when it comes while tracking is enabled and
\* the accumulator is non-empty the process does not end before the final
\* sync of cleanup was attempted, and it ends with that attempt unfinished
\* only when a deadline (5 s after the signal, 5 s after the start of cleanup)
\* has passed.
C22_FinalSyncBeforeExit ==
    /\ [](Signalled => ~running)
    /\ []((~Alive /\ tracking_enabled /\ ~IsEmpty(app_usage)) =>
             FinalSyncAttempted)
    /\ []((~Alive /\ cleanup_pc = "post") =>
             (signal_age >= ForceExitDelay \/ cleanup_age >= CleanupJoinTimeout))

\* C23: a POST attempt that fails with a connection-level error ends the
\* sync at once: no further attempt follows (the thread is back at rest, no
\* sleep is taken), the payload is in the cache and the accumulator is as it
\* was.
C23_ConnectionErrorEndsSync ==
    [][\A t \in Threads :
         (spc[t] = "post" /\ retry[t] < max_retries /\ OnConnectionError(t)) =>
             /\ spc'[t] = "idle"
             /\ slept'[t] = slept[t]
             /\ cache' = save_to_cache(data[t])
             /\ app_usage' = app_usage]_vars

\* C24: a sync that has run for more than its 30-second budget when it
\* returns has failed: it leaves the accumulator as it was, also when its last
\* attempt was answered with 200, and its payload is in the cache.
C24_OverBudgetSyncFails ==
    [][(spc[Syncer] \in {"post", "finish"} /\ spc'[Syncer] = "idle"
          /\ OverBudget(now', sync_start_time)) =>
             /\ app_usage' = app_usage
             /\ cache' = save_to_cache(data[Syncer])]_vars

\* seconds/60 rounded to two decimals, in hundredths of a minute: the integer
\* m nearest to seconds * 100 / 60, i.e. with |3m - 5 seconds| <= 1
IsMinutesOf(m, seconds) == 3 * m - 5 * seconds \in {0 - 1, 0, 1}

\* the payload of thread t has just been built from the accumulator
PayloadBuilt(t) == spc[t] = "start" /\ spc'[t] = "gate"

\* the sync of thread t ends on a 200 and nothing touched the accumulator
\* since its snapshot
AcknowledgedUntouched(t) ==
    /\ spc[t] = "finish" /\ spc'[t] = "idle"
    /\ response[t] = 200
    /\ ticked[t] = EmptyUsage
    /\ interf[t] = "no"

\* C25: the payload of a sync reports, for every application of the snapshot,
\* its seconds / 60 rounded to two decimals and reports no other application
\* (120 s on one application give 2.0 minutes for it and nothing else); when
\* the sync is acknowledged with 200 and no tick came in between, the
\* accumulator is empty afterwards.
C25_MinutesPayloadAndEmptyAfterAck ==
    [][\A t \in Threads :
         /\ PayloadBuilt(t) =>
               /\ snap'[t] = app_usage
               /\ \A a \in Apps :
                     /\ snap'[t][a] > 0 => IsMinutesOf(data'[t].apps[a], snap'[t][a])
                     /\ snap'[t][a] = 0 => data'[t].apps[a] = 0
                     /\ snap'[t][a] = 120 => data'[t].apps[a] = 200
         /\ AcknowledgedUntouched(t) => app_usage' = EmptyUsage]_vars

\* 120 s on the editor alone were reported as 2.0 minutes and acknowledged
C25_Witness ==
    /\ spc[Syncer] = "finish"
    /\ response[Syncer] = 200
    /\ snap[Syncer] = [a \in Apps |-> IF a = "code-editor" THEN 120 ELSE 0]
    /\ data[Syncer].apps = [a \in Apps |-> IF a = "code-editor" THEN 200 ELSE 0]
    /\ app_usage = snap[Syncer]

\* the main thread itself is in the last attempt of a retry sequence: it has
\* been through the earlier attempts and through the sleeps between them
MainInLastAttempt == spc["main"] = "post" /\ retry["main"] = max_retries - 1

\* C26: the network I/O of every sync the main loop asks for (periodic,
\* membership transition, day rollover) is done by the sync thread, which the
\* main loop joins for 10 s at most: the main thread never goes through the
\* retry sequence of a sync itself.
C26_MainLoopNeverRunsRetrySequence ==
    [](~MainInLastAttempt /\ slept["main"] = <<>>)

\* the seconds the accumulator holds
TotalSeconds(u) == SumOver(u, Apps)

\* on_activity has just noted a suspected system sleep
SleepFlagged == marks'.last_system_sleep_time # marks.last_system_sleep_time

\* C27: time spent suspended is never added to the accumulator.  Whatever a
\* step does and however long the clock has run since the previous tick, the
\* accumulator gains at most one second, on at most one application, and
\* loses nothing; the clock running on adds nothing; the input hook that
\* meets a gap above 300 s raises the sleep mark and adds nothing.
C27_SuspendedTimeNeverAdded ==
    [][/\ TotalSeconds(app_usage') <= TotalSeconds(app_usage) + 1
       /\ \A a \in Apps : app_usage'[a] >= app_usage[a]
       /\ \A a, b \in Apps :
             a # b => app_usage'[a] = app_usage[a] \/ app_usage'[b] = app_usage[b]
       /\ now' # now => app_usage' = app_usage
       /\ SleepFlagged => app_usage' = app_usage]_vars

\* after a gap of 400 s the hook has raised the sleep mark and the tick that
\* followed has added its one second
C27_Witness ==
    /\ now >= 4 * ClockStep
    /\ marks.last_system_sleep_time = now
    /\ marks.last_activity_check_time = now
    /\ idle = 0
    /\ TotalSeconds(app_usage) = 1

\* the threads that are inside a `with app_usage_lock` block
Insiders == {t \in LockThreads : Inside(t)}

\* a thread has just copied the accumulator
SnapshotTaken == \E t \in Threads : snap'[t] # snap[t] /\ snap'[t] # EmptyUsage

\* C28: every mutation of the accumulator (tick, subtract after a sync, clear
\* on the first join, clear on the day change, clear at shutdown) and every
\* snapshot of it is made by the thread that holds app_usage_lock; no two
\* threads are inside such a block at once, so no tick lands inside a
\* snapshot, a subtract or a clear.
C28_AccumulatorUnderOneLock ==
    /\ [](Cardinality(Insiders) <= 1)
    /\ [](\A t \in LockThreads : Inside(t) => app_usage_lock = t)
    /\ [][(app_usage' # app_usage \/ SnapshotTaken) =>
            /\ app_usage_lock # "free"
            /\ Inside(app_usage_lock)
            /\ app_usage_lock' = "free"]_vars

\* the sync thread is inside its subtract while the main loop, still running
\* with seconds in the accumulator, is at the point where it ticks
C28_Witness ==
    /\ spc["worker"] = "sub_in"
    /\ app_usage_lock = "worker"
    /\ main_pc = "tick"
    /\ running
    /\ ~IsEmpty(app_usage)

\* the upload handled by this step carries a hash that is not the SHA-256 of
\* its bytes
MismatchedUpload ==
    /\ collector'.handled = collector.handled + 1
    /\ collector'.request \in Uploads
    /\ collector'.request.hash # sha256(collector'.request.bytes)

\* C29: an upload whose hash field differs from the SHA-256 of the uploaded
\* bytes is answered with a 4xx status and nothing is stored, at every
\* screenshot upload endpoint of the collector.
C29_MismatchedUploadRejected ==
    [][MismatchedUpload =>
          /\ collector'.status \in 400..499
          /\ collector'.bucket = collector.bucket]_vars

\* this step delivers, to the same endpoint, the payload that the previous
\* request delivered and that was accepted
Redelivery ==
    /\ collector.handled > 0
    /\ collector'.handled = collector.handled + 1
    /\ collector.status = 200
    /\ collector'.endpoint = collector.endpoint
    /\ collector'.request = collector.request

\* C30: delivering the same payload, with the same app_sync_info timestamps,
\* a second time leaves every total_time of the activities and the
\* total_active_time of the day as the first delivery left them.
C30_RedeliveryIsIdempotent ==
    [][Redelivery =>
          /\ collector'.activities = collector.activities
          /\ collector'.daily_summaries = collector.daily_summaries]_vars

\* the step in which the collector handles an activity POST
ActivityPost == collector'.handled = collector.handled + 1

\* the username of the POST handled in this step has no user record
UnknownUserPost ==
    ActivityPost /\ collector'.request.username \notin collector.users

\* C31: an activity POST whose username has no user record is answered 404
\* and changes no stored state: no user, activity or daily-summary record is
\* created or modified.
C31_UnknownUserRejected ==
    [][UnknownUserPost =>
          /\ collector'.status = 404
          /\ collector'.users = collector.users
          /\ collector'.activities = collector.activities
          /\ collector'.daily_summaries = collector.daily_summaries
          /\ collector'.inserted = collector.inserted]_vars

\* the POST handled in this step is for an existing user and carries a
\* per-app usage map
KnownUserPost ==
    /\ ActivityPost
    /\ collector'.request.username \in collector.users
    /\ ~IsEmpty(collector'.request.apps)

\* C32: an activity POST for an existing user carrying a per-app usage map is
\* answered 200, and the response reports success = true together with an
\* activity_id.
C32_AcceptedPostReportsActivityId ==
    [][KnownUserPost =>
          /\ collector'.status = 200
          /\ <<"success", "true">> \in collector'.body
          /\ \E f \in collector'.body : f[1] = "activity_id"]_vars

\* C33: no clear of the accumulator (day rollover or first join) takes effect
\* between a sync's snapshot and that sync's subtract, and a sync that ends in
\* 200 leaves in the accumulator every second ticked since its snapshot; the
\* periodic sync worker that outlives the wait of the main loop included.
C33_NoClearInsideSync ==
    /\ [](\A t \in Threads : InFlight(t) => interf[t] # "clear")
    /\ [][\A t \in Threads :
            SuccessStep(t) =>
                \A a \in Apps : app_usage'[a] >= ticked[t][a]]_vars

\* C34: for every application, the seconds carried by the payloads answered
\* with 200 never exceed the seconds ticked for it, however the periodic
\* sync worker, the syncs the main thread runs itself and the final sync of
\* cleanup interleave.
C34_NoDoubleCounting ==
    \A a \in Apps : ledger.acked[a] <= ledger.ticked[a]

\* thread t issues a POST to the activity endpoint in this step
PostIssued(t) == posts'[t] = posts[t] + 1

\* C35: no activity POST is issued while tracking_enabled is false, the retry
\* attempts of a sync that started with tracking enabled and is still running
\* on the sync thread when the poller disables tracking included.
C35_NoPostWhileNotTracking ==
    [][\A t \in Threads : PostIssued(t) => tracking_enabled]_vars

\* the step in which check_session_status handles the answer of a poll
PollStep == main_pc = "status" /\ main_pc' # "status"

\* C36: the poller empties the accumulator only in a step that turns tracking
\* on and is the first join of the local day; a poll that finds the user in
\* the channel while tracking is on already (the first poll after a day
\* rollover included) leaves the accumulator as it is.
C36_PollerClearsOnlyOnFirstJoin ==
    /\ [][(PollStep /\ app_usage' # app_usage) =>
             /\ ~tracking_enabled /\ tracking_enabled'
             /\ FirstJoinToday(has_joined_today, last_join_date, today)]_vars
    /\ [][(PollStep /\ session_status' = "in_channel" /\ tracking_enabled) =>
             app_usage' = app_usage]_vars

\* the main loop is inside sync_thread.join(timeout=10) and the sync thread
\* it has started has not taken its snapshot yet
WaitingForWorker == main_pc = "join" /\ spc["worker"] = "start"

\* C37: while the main loop waits in join(timeout=10) for the sync thread it
\* has just started, the thread can take the accumulator lock for its
\* snapshot, so that the wait can end with the thread finished.
C37_WorkerRunsDuringWait ==
    WaitingForWorker => ENABLED SnapEnter("worker")

\* at least n seconds of the application were carried by acknowledged
\* payloads, and at least n were taken out of the accumulator
Settled(a, n) ==
    /\ ledger.acked[a] >= n
    /\ ledger.ticked[a] - app_usage[a] >= n

====
